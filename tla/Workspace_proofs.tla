----------------------------- MODULE Workspace_proofs -----------------------------
(***************************************************************************)
(* Proofs about Workspace: that the queues of trace-api and of the runner    *)
(* agree, that what is called ready is on disk, and that names and snapshot  *)
(* belong together, for any tabs, incidents, snapshots, restarts and faults. *)
(***************************************************************************)
EXTENDS Workspace, TLAPS

(* Queues.                                                                 *)

\* An element joins a queue at its end.
LEMMA AppendFacts ==
  ASSUME NEW S, NEW s \in Seq(S), NEW x \in S
  PROVE  /\ Append(s, x) \in Seq(S)
         /\ Len(s) \in Nat /\ DOMAIN s = 1..Len(s)
         /\ DOMAIN Append(s, x) = 1..(Len(s) + 1)
         /\ \A i \in DOMAIN s : i \in DOMAIN Append(s, x) /\ Append(s, x)[i] = s[i]
         /\ Append(s, x)[Len(s) + 1] = x
  OBVIOUS

\* The first element leaves a queue.
LEMMA TailFacts ==
  ASSUME NEW S, NEW s \in Seq(S), s # <<>>
  PROVE  /\ Tail(s) \in Seq(S)
         /\ Len(s) \in Nat /\ DOMAIN s = 1..Len(s) /\ 1 \in DOMAIN s /\ Head(s) = s[1]
         /\ DOMAIN Tail(s) = 1..(Len(s) - 1)
         /\ \A i \in DOMAIN Tail(s) : i + 1 \in DOMAIN s /\ Tail(s)[i] = s[i + 1]
         /\ \A i \in DOMAIN s : i # 1 => i - 1 \in DOMAIN Tail(s) /\ Tail(s)[i - 1] = s[i]
  OBVIOUS

\* Each element of a queue is replaced.
LEMMA MapFacts ==
  ASSUME NEW S, NEW T, NEW s \in Seq(S), NEW f, f = [i \in DOMAIN s |-> f[i]],
         \A i \in DOMAIN s : f[i] \in T
  PROVE  f \in Seq(T)
<1>1. Len(s) \in Nat /\ DOMAIN s = 1..Len(s)
  OBVIOUS
<1>2. f \in [1..Len(s) -> T]
  BY <1>1
<1> QED BY <1>1, <1>2

\* A queue without repetitions keeps them out when something new joins it,
LEMMA Joins ==
  ASSUME NEW S, NEW s \in Seq(S), IsInjective(s), NEW x \in S, x \notin Range(s)
  PROVE  /\ IsInjective(Append(s, x))
         /\ Range(Append(s, x)) = Range(s) \cup {x}
         /\ s # <<>> => Head(Append(s, x)) = Head(s)
<1>1. IsInjective(Append(s, x))
  BY AppendFacts DEF IsInjective, Range
<1>2. Range(Append(s, x)) = Range(s) \cup {x}
  BY AppendFacts DEF Range
<1>3. s # <<>> => Head(Append(s, x)) = Head(s)
  OBVIOUS
<1> QED BY <1>1, <1>2, <1>3

\* and when its first element leaves.
LEMMA Leaves ==
  ASSUME NEW S, NEW s \in Seq(S), IsInjective(s), s # <<>>
  PROVE  IsInjective(Tail(s)) /\ Range(Tail(s)) = Range(s) \ {Head(s)} /\ Head(s) \in Range(s)
<1>1. IsInjective(Tail(s))
  BY TailFacts DEF IsInjective
<1>2. Range(Tail(s)) \subseteq Range(s) \ {Head(s)}
  BY TailFacts DEF IsInjective, Range
<1>3. Range(s) \ {Head(s)} \subseteq Range(Tail(s))
  BY TailFacts DEF Range
<1>4. Head(s) \in Range(s)
  BY TailFacts DEF Range
<1> QED BY <1>1, <1>2, <1>3, <1>4

-----------------------------------------------------------------------------
(* The inductive invariant.                                                *)

Good(p) == OneRun(p) /\ LastJob(p) /\ SeenStands(p) /\ NamesStand(p)

LEMMA NoneFacts ==
  None \notin Projects /\ None \notin Snaps /\ None \notin Ids /\ None \notin Times
BY NoneAssumption DEF Times

LEMMA InitInv == Init => IndInv
<1> SUFFICES ASSUME Init PROVE IndInv
  OBVIOUS
<1> USE NoneFacts DEF Init, Gone, Idle
<1>1. PICK shows \in [Tabs -> Projects] : polls = [t \in Tabs |-> Idle(shows[t])]
  OBVIOUS
<1>2. \A t \in Tabs : polls[t] = Idle(shows[t]) /\ polls[t].at = "idle" /\ polls[t].told = None
  BY <1>1
<1>3. TypeOK
  <2>1. polls \in [Tabs -> [project : Projects, snapshot : Snaps \cup {None}, first : Files,
                         at : {"idle", "resolve", "look", "decide", "enrich"},
                         matches : BOOLEAN, busy : BOOLEAN, run : Ids \cup {None},
                         told : {None} \cup [snapshot : Snaps, names : Times \cup {None}]]]
    BY <1>1, <1>2 DEF Files
  <2>2. turns \in Seq(Ids) /\ IsInjective(turns)
    BY DEF IsInjective
  <2>3. faults \in 0..MaxFaults /\ reorgs \in 0..MaxReorgs
    BY BoundAssumption
  <2> QED BY <2>1, <2>2, <2>3 DEF TypeOK
<1>4. TurnsAgree
  BY <1>3 DEF TurnsAgree, Range
<1>5. StatesFit
  BY <1>2 DEF StatesFit
<1>6. ASSUME NEW p \in Projects PROVE Good(p)
  BY <1>2 DEF Good, OneRun, LastJob, SeenStands, NamesStand, Missed, Unasked, Ready, ProjectOf
<1>7. ToldTogether
  BY <1>2 DEF ToldTogether
<1> QED BY <1>4, <1>5, <1>6, <1>7 DEF IndInv, Good

(* The steps of a tab.                                                     *)

StateRecords == [project : Projects \cup {None}, snapshot : Snaps \cup {None},
                 status : {"discovering", "ready", "error"},
                 at : {"traces", "queued", "asked", "check", "import", "done"}]
JobRecords == [project : Projects, time : Times, for : Ids \cup {None}, writes : BOOLEAN]
PollRecords == [project : Projects, snapshot : Snaps \cup {None}, first : Files,
                at : {"idle", "resolve", "look", "decide", "enrich"},
                matches : BOOLEAN, busy : BOOLEAN, run : Ids \cup {None},
                told : {None} \cup [snapshot : Snaps, names : Times \cup {None}]]

LEMMA Types ==
  ASSUME TypeOK
  PROVE  /\ chain \in [Projects -> Snaps] /\ runs \in [Projects -> Ids \cup {None}]
         /\ states \in [Ids -> StateRecords] /\ turns \in Seq(Ids) /\ IsInjective(turns)
         /\ jobs \in Seq(JobRecords)
         /\ discovered \in [Projects -> Times \cup {None}]
         /\ recorded \in [Projects -> Snaps \cup {None}]
         /\ enrichmentCache \in [Projects -> Times \cup {None}]
         /\ polls \in [Tabs -> PollRecords] /\ disturbed \subseteq Projects
         /\ faults \in 0..MaxFaults /\ reorgs \in 0..MaxReorgs
         /\ \A t \in Tabs : ProjectOf(t) \in Projects
         /\ \A i \in DOMAIN jobs : jobs[i] \in JobRecords
<1>1. states \in [Ids -> StateRecords] /\ polls \in [Tabs -> PollRecords]
  BY DEF TypeOK, StateRecords, PollRecords
<1>2. jobs \in Seq(JobRecords)
  BY DEF TypeOK, JobRecords
<1>3. \A t \in Tabs : ProjectOf(t) \in Projects
  BY <1>1 DEF ProjectOf, PollRecords
<1>4. \A i \in DOMAIN jobs : jobs[i] \in JobRecords
  BY <1>2
<1> QED BY <1>1, <1>2, <1>3, <1>4 DEF TypeOK

LEMMA PollInv == ASSUME IndInv, NEW t \in Tabs, Poll(t) PROVE IndInv'
<1> DEFINE p == ProjectOf(t)
           id == runs[p]
           failed == id # None /\ states[id].status = "error"
           ready == id # None /\ states[id].status = "ready"
           new == polls'[t]
<1>0. TypeOK /\ TurnsAgree /\ StatesFit /\ ToldTogether
  BY DEF IndInv, TurnsAgree
<1>t. p \in Projects /\ id \in Ids \cup {None} /\ polls[t] \in PollRecords
  BY <1>0, Types
<1>1. polls' = [polls EXCEPT ![t] = new] /\ \A o \in Tabs : o # t => polls'[o] = polls[o]
  BY <1>0, Types DEF Poll
<1>2. /\ id = None => new = [Idle(p) EXCEPT !.at = "resolve"]
      /\ ready => new = [Idle(p) EXCEPT !.at = "enrich", !.run = id, !.snapshot = states[id].snapshot]
      /\ id # None /\ ~ready => new = Idle(p)
  <2>1. polls' = [polls EXCEPT ![t] =
           CASE id = None -> [Idle(p) EXCEPT !.at = "resolve"]
             [] id # None /\ states[id].status = "ready" ->
                  [Idle(p) EXCEPT !.at = "enrich", !.run = id, !.snapshot = states[id].snapshot]
             [] OTHER -> Idle(p)]
    BY DEF Poll
  <2>2. new = CASE id = None -> [Idle(p) EXCEPT !.at = "resolve"]
             [] id # None /\ states[id].status = "ready" ->
                  [Idle(p) EXCEPT !.at = "enrich", !.run = id, !.snapshot = states[id].snapshot]
             [] OTHER -> Idle(p)
    BY <2>1, <1>0, Types, Zenon
  <2> QED BY <2>2
<1>3. /\ new.project = p /\ new.told = None /\ new.at \in {"idle", "resolve", "enrich"}
      /\ new.at = "resolve" <=> id = None
      /\ new.at = "enrich" <=> ready
      /\ ready => new.snapshot = states[id].snapshot
      /\ new \in PollRecords
  <2>1. Idle(p) \in PollRecords
    BY <1>t DEF Idle, PollRecords, Files
  <2>2. CASE id = None
    <3>1. new = [Idle(p) EXCEPT !.at = "resolve"]
      BY <2>2, <1>2
    <3>2. new \in PollRecords
      BY <3>1, <2>1 DEF PollRecords
    <3> QED BY <3>1, <3>2, <2>2 DEF Idle
  <2>3. CASE ready
    <3>1. id \in Ids /\ states[id].snapshot \in Snaps \cup {None}
      BY <2>3, <1>t, <1>0, Types DEF StateRecords
    <3> QED BY <3>1, <2>1, <2>3, <1>2 DEF Idle, PollRecords
  <2>4. CASE id # None /\ ~ready
    BY <2>1, <2>4, <1>2 DEF Idle
  <2> QED BY <2>2, <2>3, <2>4
<1>4. /\ runs' = [runs EXCEPT ![p] = IF failed THEN None ELSE id]
      /\ states' = [i \in Ids |-> IF i = id /\ failed THEN Gone ELSE states[i]]
      /\ \A i \in Ids : i # id \/ ~failed => states'[i] = states[i]
      /\ failed => states'[id] = Gone
      /\ disturbed \subseteq disturbed' /\ disturbed' \subseteq disturbed \cup {p}
      /\ UNCHANGED <<turns, jobs, discovered, recorded, enrichmentCache, chain, faults, reorgs>>
  BY <1>t DEF Poll, disk, bounds
<1>5. failed => states[id].at = "done"
  BY <1>0, <1>t DEF StatesFit
<1>6. \A i \in Ids : states'[i].at = states[i].at
  BY <1>4, <1>5 DEF Gone
<1>7. \A o \in Tabs : polls'[o].project = ProjectOf(o)
  BY <1>1, <1>3 DEF ProjectOf
<1>8. TypeOK'
  <2>1. states' \in [Ids -> StateRecords]
    BY <1>4, <1>0, Types DEF Gone, StateRecords
  <2>2. polls' \in [Tabs -> PollRecords]
    BY <1>1, <1>3, <1>0, Types
  <2> QED BY <2>1, <2>2, <1>0, <1>4, <1>t DEF TypeOK, StateRecords, PollRecords
<1>9. TurnsAgree'
  BY <1>8, <1>6, <1>4, <1>0 DEF TurnsAgree
<1>10. StatesFit'
  <2>1. \A i \in Ids : /\ states'[i].at # "done" => states'[i] = states[i]
                       /\ states'[i].status # "error" => states'[i] = states[i]
    BY <1>4, <1>5 DEF Gone
  <2>2. ASSUME NEW q \in Projects, runs'[q] # None PROVE states'[runs'[q]].project = q
    BY <2>2, <1>4, <1>t, <1>0, Types, NoneFacts DEF StatesFit
  <2>3. ASSUME NEW i \in DOMAIN jobs, jobs[i].for # None
        PROVE  states'[jobs[i].for].project = jobs[i].project
    <3>1. jobs[i].for \in Ids /\ states[jobs[i].for].at = "asked"
      BY <2>3, <1>0, Types DEF JobRecords, TurnsAgree
    <3> QED BY <3>1, <1>5, <1>4, <1>0, <2>3 DEF StatesFit
  <2>4. \A o \in Tabs : polls'[o].at \in {"look", "decide", "enrich"} => polls'[o].snapshot \in Snaps
    BY <1>1, <1>3, <1>0, <1>t DEF StatesFit
  <2>5. ASSUME NEW i \in Ids
        PROVE  /\ states'[i].at # "done" =>
                    states'[i].status = "discovering" /\ states'[i].project \in Projects
               /\ states'[i].status # "error" \/ states'[i].at # "done" =>
                    states'[i].snapshot \in Snaps
    BY <2>1, <1>0 DEF StatesFit
  <2>6. jobs' = jobs
    BY <1>4
  <2> HIDE DEF new, id, p
  <2> QED BY <2>2, <2>3, <2>4, <2>5, <2>6 DEF StatesFit
<1>11. ASSUME NEW q \in Projects, q \notin disturbed' PROVE Good(q)'
  <2>0. q \notin disturbed /\ Good(q)
    BY <1>11, <1>4 DEF IndInv, Good
  <2>1. OneRun(q)'
    <3>1. ASSUME NEW i \in Ids, states'[i].project = q, states'[i].at # "done"
          PROVE  runs'[q] = i
      <4>1. states'[i] = states[i]
        BY <3>1, <1>4, <1>5, <1>6
      <4>2. runs[q] = i
        BY <3>1, <4>1, <2>0 DEF Good, OneRun
      <4>3. ~(q = p /\ failed)
        BY <4>2, <4>1, <3>1, <1>5
      <4> QED BY <4>2, <4>3, <1>4, <1>t, <1>0, Types
    <3>2. ASSUME NEW o \in Tabs, ProjectOf(o)' = q, Missed(o)'
          PROVE  /\ runs'[q] = None
                 /\ \A u \in Tabs : ProjectOf(u)' = q /\ Missed(u)' => u = o
      <4>1. \A u \in Tabs : u # t => (ProjectOf(u)' = ProjectOf(u) /\ (Missed(u)' <=> Missed(u)))
        BY <1>1 DEF ProjectOf, Missed
      <4>2. ProjectOf(t)' = p /\ (Missed(t)' => id = None)
        BY <1>3 DEF ProjectOf, Missed
      <4>3. CASE Missed(t)' /\ q = p
        <5>1. \A u \in Tabs : ~(ProjectOf(u) = p /\ Missed(u))
          BY <4>2, <4>3, <1>11, <1>t DEF Poll
        <5>2. o = t /\ \A u \in Tabs : ProjectOf(u)' = q /\ Missed(u)' => u = t
          BY <5>1, <4>1, <4>3, <3>2
        <5> QED BY <5>2, <4>2, <4>3, <1>4, <1>t, <1>0, Types
      <4>4. CASE ~(Missed(t)' /\ q = p)
        <5>1. o # t /\ ProjectOf(o) = q /\ Missed(o)
          BY <3>2, <4>1, <4>2, <4>4
        <5>2. runs[q] = None /\ \A u \in Tabs : ProjectOf(u) = q /\ Missed(u) => u = o
          BY <5>1, <2>0 DEF Good, OneRun
        <5>3. runs'[q] = None
          BY <5>2, <1>4, <1>t, <1>0, Types
        <5> QED BY <5>2, <5>3, <4>1, <4>2, <4>4
      <4> QED BY <4>3, <4>4
    <3> QED BY <3>1, <3>2 DEF OneRun
  <2>2. LastJob(q)'
    <3>1. \A i \in Ids : states'[i].project = q => states'[i] = states[i]
      BY <1>4, NoneFacts DEF Gone
    <3> QED BY <3>1, <2>0, <1>4 DEF Good, LastJob, Unasked
  <2>3. SeenStands(q)'
    <3>1. \A o \in Tabs : polls'[o].at = "decide" => polls'[o] = polls[o]
      BY <1>1, <1>3
    <3>2. SeenStands(q) /\ UNCHANGED <<jobs, discovered, recorded>>
      BY <2>0, <1>4 DEF Good
    <3> HIDE DEF new, ready, failed, id, p
    <3> QED BY <3>1, <3>2 DEF SeenStands, Unasked, Matches, ProjectOf
  <2>4. Ready(q)' <=> Ready(q)
    <3>1. \A i \in Ids : states'[i].status = "ready" <=> states[i].status = "ready"
      BY <1>4 DEF Gone
    <3>2. CASE q = p
      BY <3>1, <3>2, <1>4, <1>t, <1>0, Types, NoneFacts DEF Ready
    <3>3. CASE q # p
      BY <3>1, <3>3, <1>4, <1>t, <1>0, Types, NoneFacts DEF Ready
    <3> QED BY <3>2, <3>3
  <2>5. Ready(q) => runs'[q] = runs[q] /\ states'[runs[q]] = states[runs[q]]
    BY <1>4, <1>t, <1>0, Types DEF Ready
  <2>6. NamesStand(q)'
    <3>1. Ready(q)' => OnDisk(q, states[runs[q]].snapshot)' /\ Unasked(q)'
      BY <2>4, <2>5, <2>0, <1>4 DEF Good, NamesStand, OnDisk, Unasked
    <3>2. enrichmentCache'[q] # None =>
            Ready(q)' /\ enrichmentCache'[q] = TimeOf[states'[runs'[q]].snapshot]
      BY <2>4, <2>5, <2>0, <1>4 DEF Good, NamesStand
    <3>3. ASSUME NEW o \in Tabs, ProjectOf(o)' = q, polls'[o].at = "enrich"
          PROVE  Ready(q)' /\ polls'[o].snapshot = states'[runs'[q]].snapshot
      <4>1. CASE o = t
        BY <4>1, <3>3, <1>3, <1>7, <2>4, <2>5 DEF Ready, ProjectOf
      <4>2. CASE o # t
        BY <4>2, <3>3, <1>1, <1>7, <2>0, <2>4, <2>5 DEF Good, NamesStand, ProjectOf
      <4> QED BY <4>1, <4>2
    <3> QED BY <3>1, <3>2, <3>3 DEF NamesStand
  <2> QED BY <2>1, <2>2, <2>3, <2>6 DEF Good
<1>12. ToldTogether'
  BY <1>0, <1>1, <1>3, <1>4, <1>7 DEF ToldTogether, ProjectOf
<1> QED BY <1>9, <1>10, <1>11, <1>12, <1>8 DEF IndInv, Good

\* A request that goes on, and has seen what it says.
LEMMA PollMoves ==
  ASSUME IndInv, NEW t \in Tabs, NEW new \in PollRecords, polls' = [polls EXCEPT ![t] = new],
         UNCHANGED <<runs, states, turns, jobs, disk, enrichmentCache, disturbed, bounds>>,
         new.project = ProjectOf(t), new.told = polls[t].told,
         Missed(t), new.at \in {"look", "decide"}, new.snapshot \in Snaps,
         new.at = "decide" /\ ~new.busy /\ ProjectOf(t) \notin disturbed =>
           /\ Unasked(ProjectOf(t))
           /\ new.matches => IF new.first = "discovered"
                             THEN discovered[ProjectOf(t)] = TimeOf[new.snapshot]
                             ELSE recorded[ProjectOf(t)] = new.snapshot
  PROVE  IndInv'
<1>0. TypeOK /\ TurnsAgree /\ StatesFit /\ ToldTogether
  BY DEF IndInv, TurnsAgree
<1>1. \A o \in Tabs : /\ o # t => polls'[o] = polls[o]
                      /\ ProjectOf(o)' = ProjectOf(o) /\ polls'[o].told = polls[o].told
                      /\ Missed(o)' <=> Missed(o)
  BY <1>0, Types DEF ProjectOf, Missed
<1>2. polls'[t] = new
  BY <1>0, Types
<1>3. TypeOK'
  <2>1. polls' \in [Tabs -> PollRecords]
    BY <1>0, Types
  <2> QED BY <2>1, <1>0 DEF TypeOK, PollRecords, disk, bounds
<1>4. TurnsAgree'
  BY <1>3, <1>0 DEF TurnsAgree
<1>5. StatesFit'
  BY <1>0, <1>1, <1>2 DEF StatesFit
<1>6. ASSUME NEW q \in Projects, q \notin disturbed' PROVE Good(q)'
  <2>0. q \notin disturbed /\ Good(q)
    BY <1>6 DEF IndInv, Good
  <2>1. OneRun(q)'
    BY <2>0, <1>1 DEF Good, OneRun
  <2>2. LastJob(q)'
    BY <2>0 DEF Good, LastJob, Unasked, disk
  <2>3. ASSUME NEW o \in Tabs, ProjectOf(o)' = q, polls'[o].at = "decide", ~polls'[o].busy
        PROVE  Unasked(q)' /\ (polls[o].matches => Matches(o, polls[o].first))'
    <3>1. CASE o = t
      BY <3>1, <2>3, <2>0, <1>1, <1>2 DEF Unasked, Matches, disk
    <3>2. CASE o # t
      BY <3>2, <2>3, <2>0, <1>1 DEF Good, SeenStands, Unasked, Matches, ProjectOf, disk
    <3> QED BY <3>1, <3>2
  <2>4. NamesStand(q)'
    <3>1. \A o \in Tabs : polls'[o].at = "enrich" => polls'[o] = polls[o]
      BY <1>1, <1>2
    <3> QED BY <3>1, <1>1, <2>0 DEF Good, NamesStand, Ready, OnDisk, Unasked, disk
  <2> QED BY <2>1, <2>2, <2>3, <2>4 DEF Good, SeenStands
<1>7. ToldTogether'
  BY <1>0, <1>1 DEF ToldTogether
<1> QED BY <1>4, <1>5, <1>6, <1>7 DEF IndInv, Good

LEMMA ResolveInv == ASSUME IndInv, NEW t \in Tabs, Resolve(t) PROVE IndInv'
<1> DEFINE new == [polls[t] EXCEPT !.at = "look", !.snapshot = chain[ProjectOf(t)]]
<1>0. TypeOK
  BY DEF IndInv, TurnsAgree
<1>1. polls[t] \in PollRecords /\ chain[ProjectOf(t)] \in Snaps
  BY <1>0, Types
<1>2. /\ new \in PollRecords /\ new.project = ProjectOf(t) /\ new.told = polls[t].told
      /\ new.at = "look" /\ new.snapshot \in Snaps /\ Missed(t)
  BY <1>1 DEF Resolve, PollRecords, ProjectOf, Missed
<1>3. polls' = [polls EXCEPT ![t] = new]
  BY DEF Resolve
<1>4. UNCHANGED <<runs, states, turns, jobs, disk, enrichmentCache, disturbed, bounds>>
  BY DEF Resolve
<1> HIDE DEF new
<1> QED BY <1>2, <1>3, <1>4, PollMoves

LEMMA LookInv == ASSUME IndInv, NEW t \in Tabs, Look(t) PROVE IndInv'
<1>0. TypeOK /\ StatesFit
  BY DEF IndInv, TurnsAgree
<1>1. PICK file \in Files :
        polls' = [polls EXCEPT ![t].at = "decide", ![t].first = file,
           ![t].matches = Matches(t, file),
           ![t].busy = \E i \in DOMAIN jobs : jobs[i].project = ProjectOf(t)]
  BY DEF Look
<1> DEFINE busy == \E i \in DOMAIN jobs : jobs[i].project = ProjectOf(t)
           new == [polls[t] EXCEPT !.at = "decide", !.first = file,
                                   !.matches = Matches(t, file), !.busy = busy]
<1>2. polls[t] \in PollRecords /\ polls[t].snapshot \in Snaps
  BY <1>0, Types DEF Look, StatesFit
<1>3. Matches(t, file) \in BOOLEAN /\ busy \in BOOLEAN
  BY DEF Matches
<1>4. /\ new.project = ProjectOf(t) /\ new.told = polls[t].told
      /\ new.at = "decide" /\ new.snapshot = polls[t].snapshot /\ Missed(t)
      /\ new.matches = Matches(t, file) /\ new.first = file /\ new.busy = busy
  BY <1>2 DEF Look, PollRecords, ProjectOf, Missed
<1>5. new \in PollRecords
  <2>1. \A m, b \in BOOLEAN :
          [polls[t] EXCEPT !.at = "decide", !.first = file, !.matches = m, !.busy = b]
            \in PollRecords
    BY <1>2 DEF PollRecords
  <2> HIDE DEF busy
  <2> QED BY <2>1, <1>3
<1>6. polls' = [polls EXCEPT ![t] = new]
  BY <1>1
<1>7. UNCHANGED <<runs, states, turns, jobs, disk, enrichmentCache, disturbed, bounds>>
  BY DEF Look
<1>8. new.matches => IF new.first = "discovered"
                     THEN discovered[ProjectOf(t)] = TimeOf[new.snapshot]
                     ELSE recorded[ProjectOf(t)] = new.snapshot
  BY <1>4 DEF Matches
<1>9. ~busy => Unasked(ProjectOf(t))
  BY DEF Unasked
<1> HIDE DEF new, busy
<1> QED BY <1>2, <1>4, <1>5, <1>6, <1>7, <1>8, <1>9, PollMoves

LEMMA DecideInv == ASSUME IndInv, NEW t \in Tabs, Decide(t) PROVE IndInv'
<1> DEFINE p == ProjectOf(t)
           ready == /\ polls[t].matches
                    /\ \A file \in Files \ {polls[t].first} : Matches(t, file)
           new == polls'[t]
<1>0. TypeOK /\ TurnsAgree /\ StatesFit /\ ToldTogether
  BY DEF IndInv, TurnsAgree
<1>1. PICK id \in Ids :
        /\ Free(id)
        /\ states' = [states EXCEPT ![id] =
             [project |-> p, snapshot |-> polls[t].snapshot,
              status |-> IF ready THEN "ready" ELSE "discovering",
              at |-> IF ready THEN "done" ELSE "traces"]]
        /\ runs' = [runs EXCEPT ![p] = id]
        /\ polls' = [polls EXCEPT ![t] =
             IF ready THEN [@ EXCEPT !.at = "enrich", !.run = id] ELSE Idle(p)]
  BY DEF Decide
<1>t. /\ p \in Projects /\ polls[t] \in PollRecords /\ polls[t].at = "decide"
      /\ polls[t].snapshot \in Snaps
  BY <1>0, Types DEF Decide, StatesFit
<1>2. /\ \A o \in Tabs : o # t => polls'[o] = polls[o]
      /\ ready => new = [polls[t] EXCEPT !.at = "enrich", !.run = id]
      /\ ~ready => new = Idle(p)
  BY <1>1, <1>0, Types
<1>3. /\ new \in PollRecords /\ new.project = p /\ (new.told = None \/ new.told = polls[t].told)
      /\ ready => new.at = "enrich" /\ new.snapshot = polls[t].snapshot
      /\ ~ready => new.at = "idle"
  <2>1. Idle(p) \in PollRecords
    BY <1>t DEF Idle, PollRecords, Files
  <2>2. CASE ready
    <3>1. new = [polls[t] EXCEPT !.at = "enrich", !.run = id]
      BY <1>2, <2>2
    <3>2. /\ new.project = p /\ new.told = polls[t].told /\ new.at = "enrich"
          /\ new.snapshot = polls[t].snapshot
      BY <3>1, <1>t DEF PollRecords, ProjectOf
    <3>3. new \in PollRecords
      BY <3>1, <1>t DEF PollRecords
    <3> QED BY <3>2, <3>3, <2>2
  <2>3. CASE ~ready
    BY <1>2, <2>1, <2>3 DEF Idle
  <2> QED BY <2>2, <2>3
<1>4. /\ \A i \in Ids \ {id} : states'[i] = states[i]
      /\ states'[id].project = p /\ states'[id].snapshot = polls[t].snapshot
      /\ ready => states'[id].status = "ready" /\ states'[id].at = "done"
      /\ ~ready => states'[id].status = "discovering" /\ states'[id].at = "traces"
      /\ runs'[p] = id /\ \A q \in Projects \ {p} : runs'[q] = runs[q]
  BY <1>1, <1>0, <1>t, Types
<1>5. states[id].at = "done" /\ \A q \in Projects : runs[q] # id
  BY <1>1 DEF Free
<1>6. /\ disturbed \subseteq disturbed' /\ (ready /\ polls[t].busy => p \in disturbed')
      /\ UNCHANGED <<turns, jobs, discovered, recorded, enrichmentCache, chain, faults, reorgs>>
  BY DEF Decide, disk, bounds
<1>7. \A o \in Tabs : /\ ProjectOf(o)' = ProjectOf(o)
                      /\ polls'[o].told = None \/ polls'[o].told = polls[o].told
                      /\ Missed(o)' <=> Missed(o) /\ o # t
  BY <1>2, <1>3 DEF ProjectOf, Missed
<1>8. TypeOK'
  <2>1. states' \in [Ids -> StateRecords]
    BY <1>1, <1>t, <1>0, Types DEF StateRecords
  <2>2. polls' \in [Tabs -> PollRecords]
    <3>1. polls' = [polls EXCEPT ![t] = new]
      BY <1>1, <1>0, Types
    <3> QED BY <3>1, <1>3, <1>0, Types
  <2>3. runs' \in [Projects -> Ids \cup {None}] /\ disturbed' \subseteq Projects
    BY <1>1, <1>t, <1>0, Types DEF Decide
  <2> QED BY <2>1, <2>2, <2>3, <1>0, <1>6 DEF TypeOK, StateRecords, PollRecords
<1>9. \A i \in DOMAIN jobs : jobs[i].for # id
  BY <1>0, <1>5, Types DEF TurnsAgree
<1>10. TurnsAgree'
  <2>1. states'[id].at \in {"done", "traces"}
    BY <1>4
  <2>2. \A i \in Ids : /\ states'[i].at \in {"queued", "asked"} <=> states[i].at \in {"queued", "asked"}
                       /\ states'[i].at = "asked" <=> states[i].at = "asked"
    BY <2>1, <1>4, <1>5
  <2> QED BY <2>2, <1>8, <1>6, <1>0 DEF TurnsAgree
<1>11. StatesFit'
  <2>1. \A i \in Ids : /\ states'[i].at # "done" =>
                            states'[i].status = "discovering" /\ states'[i].project \in Projects
                       /\ states'[i].status # "error" \/ states'[i].at # "done" =>
                            states'[i].snapshot \in Snaps
    BY <1>4, <1>t, <1>0 DEF StatesFit
  <2>2. ASSUME NEW q \in Projects, runs'[q] # None PROVE states'[runs'[q]].project = q
    BY <2>2, <1>4, <1>5, <1>0, Types, NoneFacts DEF StatesFit
  <2>3. ASSUME NEW i \in DOMAIN jobs, jobs[i].for # None
        PROVE  states'[jobs[i].for].project = jobs[i].project
    BY <2>3, <1>9, <1>4, <1>0, Types DEF StatesFit, JobRecords
  <2>4. \A o \in Tabs : polls'[o].at \in {"look", "decide", "enrich"} => polls'[o].snapshot \in Snaps
    BY <1>2, <1>3, <1>t, <1>0 DEF StatesFit
  <2> QED BY <2>1, <2>2, <2>3, <2>4, <1>6 DEF StatesFit
<1>12. ASSUME NEW q \in Projects, q \notin disturbed' PROVE Good(q)'
  <2>0. q \notin disturbed /\ Good(q)
    BY <1>12, <1>6 DEF IndInv, Good
  <2>1. q = p => /\ runs[p] = None
                 /\ \A i \in Ids : states[i].project = p => states[i].at = "done"
                 /\ \A o \in Tabs : ProjectOf(o) = p /\ Missed(o) => o = t
                 /\ ~Ready(p)
    BY <2>0, <1>t, NoneFacts DEF Good, OneRun, Missed, Ready
  <2>2. OneRun(q)'
    <3>1. \A i \in Ids : states'[i].project = q /\ states'[i].at # "done" => runs'[q] = i
      BY <2>0, <2>1, <1>4 DEF Good, OneRun
    <3>2. ASSUME NEW o \in Tabs, ProjectOf(o)' = q, Missed(o)'
          PROVE runs'[q] = None /\ \A u \in Tabs : ProjectOf(u)' = q /\ Missed(u)' => u = o
      BY <3>2, <2>0, <2>1, <1>7, <1>4 DEF Good, OneRun
    <3> QED BY <3>1, <3>2 DEF OneRun
  <2>3. LastJob(q)'
    BY <2>0, <1>4, <1>6, <1>9 DEF Good, LastJob, Unasked
  <2>4. SeenStands(q)'
    <3>1. \A o \in Tabs : polls'[o].at = "decide" => polls'[o] = polls[o]
      BY <1>2, <1>3
    <3> QED BY <3>1, <2>0, <1>6 DEF Good, SeenStands, Unasked, Matches, ProjectOf
  <2>5. NamesStand(q)'
    <3>1. CASE q = p
      <4>1. Ready(q)' <=> ready
        BY <3>1, <1>4, NoneFacts DEF Ready
      <4>2. ASSUME ready
            PROVE  /\ discovered'[q] = TimeOf[polls[t].snapshot] /\ recorded'[q] = polls[t].snapshot
                   /\ Unasked(q)'
        <5>1. Unasked(p) /\ Matches(t, polls[t].first)
          BY <4>2, <3>1, <2>0, <1>t, <1>6, <1>12 DEF Good, SeenStands
        <5>2. Matches(t, "discovered") /\ Matches(t, "recorded")
          BY <4>2, <5>1 DEF Files
        <5> QED BY <5>1, <5>2, <3>1, <1>6 DEF Matches, Unasked
      <4>3. enrichmentCache[p] = None /\ \A o \in Tabs : ProjectOf(o) = p => polls[o].at # "enrich"
        BY <3>1, <2>0, <2>1 DEF Good, NamesStand
      <4> HIDE DEF ready
      <4> QED BY <3>1, <4>1, <4>2, <4>3, <1>2, <1>3, <1>4, <1>6, <1>7 DEF NamesStand, OnDisk
    <3>2. CASE q # p
      <4>1. runs'[q] = runs[q] /\ (runs[q] # None => states'[runs[q]] = states[runs[q]])
        BY <3>2, <1>4, <1>5, <1>0, Types
      <4>2. \A o \in Tabs : ProjectOf(o)' = q => polls'[o] = polls[o] /\ ProjectOf(o) = q
        BY <3>2, <1>2, <1>7
      <4> QED BY <4>1, <4>2, <2>0, <1>6 DEF Good, NamesStand, Ready, OnDisk, Unasked
    <3> QED BY <3>1, <3>2
  <2> QED BY <2>2, <2>3, <2>4, <2>5 DEF Good
<1>13. ToldTogether'
  BY <1>0, <1>6, <1>7 DEF ToldTogether
<1> QED BY <1>10, <1>11, <1>12, <1>13 DEF IndInv, Good

LEMMA EnrichInv == ASSUME IndInv, NEW t \in Tabs, Enrich(t) PROVE IndInv'
<1> DEFINE p == ProjectOf(t)
           names == IF enrichmentCache[p] # None THEN enrichmentCache[p] ELSE discovered[p]
           new == polls'[t]
<1>0. TypeOK /\ TurnsAgree /\ StatesFit /\ ToldTogether
  BY DEF IndInv, TurnsAgree
<1>t. /\ p \in Projects /\ polls[t].at = "enrich" /\ polls[t].snapshot \in Snaps
      /\ names \in Times \cup {None}
  BY <1>0, Types DEF Enrich, StatesFit
<1>1. /\ polls' = [polls EXCEPT ![t] = new] /\ \A o \in Tabs : o # t => polls'[o] = polls[o]
      /\ new = [Idle(p) EXCEPT !.told = [snapshot |-> polls[t].snapshot, names |-> names]]
  BY <1>0, Types DEF Enrich
<1>2. /\ new.project = p /\ new.at = "idle"
      /\ new.told = [snapshot |-> polls[t].snapshot, names |-> names]
      /\ new \in PollRecords
  <2>1. Idle(p) \in PollRecords
    BY <1>t DEF Idle, PollRecords, Files
  <2>2. [snapshot |-> polls[t].snapshot, names |-> names] \in [snapshot : Snaps, names : Times \cup {None}]
    BY <1>t
  <2> HIDE DEF names
  <2> QED BY <1>1, <2>1, <2>2 DEF Idle, PollRecords
<1>3. /\ enrichmentCache'[p] = names
      /\ \A q \in Projects \ {p} : enrichmentCache'[q] = enrichmentCache[q]
      /\ enrichmentCache' \in [Projects -> Times \cup {None}]
  BY <1>0, <1>t, Types DEF Enrich
<1>4. UNCHANGED <<runs, states, turns, jobs, discovered, recorded, disturbed, chain, faults, reorgs>>
  BY DEF Enrich, disk, bounds
<1>5. p \notin disturbed => /\ Ready(p) /\ names = TimeOf[polls[t].snapshot]
                            /\ polls[t].snapshot = states[runs[p]].snapshot
  BY <1>t DEF IndInv, NamesStand, OnDisk
<1> HIDE DEF names
<1>6. \A o \in Tabs : /\ ProjectOf(o)' = ProjectOf(o) /\ (Missed(o)' <=> Missed(o))
                      /\ polls'[o].at # "idle" => polls'[o] = polls[o]
  BY <1>1, <1>2, <1>t DEF ProjectOf, Missed
<1>7. TypeOK'
  <2>1. polls' \in [Tabs -> PollRecords]
    BY <1>1, <1>2, <1>0, Types
  <2> QED BY <2>1, <1>0, <1>3, <1>4 DEF TypeOK, PollRecords
<1>8. TurnsAgree'
  BY <1>7, <1>4, <1>0 DEF TurnsAgree
<1>9. StatesFit'
  BY <1>0, <1>4, <1>6 DEF StatesFit
<1>10. ASSUME NEW q \in Projects, q \notin disturbed' PROVE Good(q)'
  <2>0. q \notin disturbed /\ Good(q)
    BY <1>10, <1>4 DEF IndInv, Good
  <2>1. OneRun(q)'
    BY <2>0, <1>4, <1>6 DEF Good, OneRun
  <2>2. LastJob(q)'
    BY <2>0, <1>4 DEF Good, LastJob, Unasked
  <2>3. SeenStands(q)'
    BY <2>0, <1>4, <1>6 DEF Good, SeenStands, Unasked, Matches, ProjectOf
  <2>4. NamesStand(q)'
    <3>1. Ready(q) => OnDisk(q, states[runs[q]].snapshot) /\ Unasked(q)
      BY <2>0 DEF Good, NamesStand
    <3>2. enrichmentCache'[q] # None =>
            Ready(q) /\ enrichmentCache'[q] = TimeOf[states[runs[q]].snapshot]
      BY <2>0, <1>3, <1>5 DEF Good, NamesStand
    <3>3. \A o \in Tabs : ProjectOf(o)' = q /\ polls'[o].at = "enrich" =>
            Ready(q) /\ polls'[o].snapshot = states[runs[q]].snapshot
      BY <2>0, <1>6 DEF Good, NamesStand
    <3> QED BY <3>1, <3>2, <3>3, <1>4 DEF NamesStand, Ready, OnDisk, Unasked
  <2> QED BY <2>1, <2>2, <2>3, <2>4 DEF Good
<1>11. ToldTogether'
  <2>1. ASSUME NEW o \in Tabs, polls'[o].told # None, ProjectOf(o)' \notin disturbed'
        PROVE  polls'[o].told.names = TimeOf[polls'[o].told.snapshot]
    <3>1. CASE o = t
      BY <3>1, <2>1, <1>2, <1>4, <1>5, <1>6
    <3>2. CASE o # t
      BY <3>2, <2>1, <1>0, <1>1, <1>4, <1>6 DEF ToldTogether
    <3> QED BY <3>1, <3>2
  <2> QED BY <2>1 DEF ToldTogether
<1> QED BY <1>8, <1>9, <1>10, <1>11 DEF IndInv, Good

-----------------------------------------------------------------------------
(* The steps of a run and of the runner.                                   *)

\* A run goes on, keeps its project and snapshot, and is not begun.
Moves(i) ==
  /\ states'[i].project = states[i].project /\ states'[i].snapshot = states[i].snapshot
  /\ states[i].at = "done" => states'[i] = states[i]
  /\ states'[i].at # "done" => states'[i].status = states[i].status

\* What such a step keeps whatever else it does.
LEMMA MovesInv ==
  ASSUME IndInv, UNCHANGED <<runs, polls, disturbed>>, \A i \in Ids : Moves(i)
  PROVE  /\ ToldTogether'
         /\ \A q \in Projects \ disturbed : OneRun(q)'
         /\ (\A i \in DOMAIN jobs' :
               jobs'[i].for # None => /\ states[jobs'[i].for].project = jobs'[i].project
                                      /\ jobs'[i].for \in Ids) => StatesFit'
<1>0. TypeOK /\ StatesFit /\ ToldTogether
  BY DEF IndInv, TurnsAgree
<1>1. ToldTogether'
  BY <1>0 DEF ToldTogether, ProjectOf
<1>2. ASSUME NEW q \in Projects \ disturbed PROVE OneRun(q)'
  BY <1>2 DEF IndInv, OneRun, Moves, Missed, ProjectOf
<1>3. ASSUME \A i \in DOMAIN jobs' :
               jobs'[i].for # None => /\ states[jobs'[i].for].project = jobs'[i].project
                                      /\ jobs'[i].for \in Ids
      PROVE  StatesFit'
  <2>1. \A i \in Ids : /\ states'[i].at # "done" =>
                            states'[i].status = "discovering" /\ states'[i].project \in Projects
                       /\ states'[i].status # "error" \/ states'[i].at # "done" =>
                            states'[i].snapshot \in Snaps
    BY <1>0 DEF StatesFit, Moves
  <2>2. \A q \in Projects : runs'[q] # None => states'[runs'[q]].project = q
    BY <1>0, Types DEF StatesFit, Moves
  <2>3. \A i \in DOMAIN jobs' : jobs'[i].for # None => states'[jobs'[i].for].project = jobs'[i].project
    BY <1>3 DEF Moves
  <2> QED BY <2>1, <2>2, <2>3, <1>0 DEF StatesFit
<1> QED BY <1>1, <1>2, <1>3

\* What is not of a project does not disturb it.
LEMMA Untouched ==
  ASSUME IndInv, UNCHANGED <<runs, polls, disturbed>>, NEW q \in Projects \ disturbed,
         \A i \in Ids : Moves(i) /\ (states[i].project = q => states'[i] = states[i]),
         UNCHANGED <<discovered[q], recorded[q], enrichmentCache[q]>>,
         Unasked(q) => Unasked(q)',
         \A i \in Ids : \A j, k \in DOMAIN jobs' :
           states[i].project = q /\ jobs'[j].for = i /\ j < k => jobs'[k].project # q
  PROVE  Good(q)'
<1>0. TypeOK /\ StatesFit /\ Good(q)
  BY DEF IndInv, TurnsAgree, Good
<1>1. OneRun(q)'
  BY MovesInv
<1>2. LastJob(q)'
  BY <1>0 DEF Good, LastJob, Moves
<1>3. SeenStands(q)'
  BY <1>0 DEF Good, SeenStands, Matches, ProjectOf
<1>4. runs[q] # None => states'[runs[q]] = states[runs[q]]
  BY <1>0, Types DEF StatesFit
<1>5. NamesStand(q)'
  BY <1>0, <1>4 DEF Good, NamesStand, Ready, OnDisk, ProjectOf
<1> QED BY <1>1, <1>2, <1>3, <1>5 DEF Good

\* While a run is at work nobody else begins one of its project, and nobody has
\* been told of it.
LEMMA Working ==
  ASSUME IndInv, NEW id \in Ids, NEW p, states[id].project = p, p \notin disturbed,
         states[id].at # "done"
  PROVE  /\ p \in Projects /\ runs[p] = id /\ ~Ready(p) /\ enrichmentCache[p] = None
         /\ \A t \in Tabs : ProjectOf(t) = p => ~Missed(t) /\ polls[t].at # "enrich"
         /\ \A i \in Ids \ {id} : states[i].project = p => states[i].at = "done"
         /\ \A i \in Ids \ {id} : \A j \in DOMAIN jobs : states[i].project = p => jobs[j].for # i
<1>0. TypeOK /\ TurnsAgree /\ StatesFit
  BY DEF IndInv, TurnsAgree
<1>1. p \in Projects
  BY <1>0 DEF StatesFit
<1>2. Good(p)
  BY <1>1 DEF IndInv, Good
<1>3. runs[p] = id /\ id # None
  BY <1>2, NoneFacts DEF Good, OneRun
<1>4. ~Ready(p)
  BY <1>0, <1>3 DEF Ready, StatesFit
<1>5. \A i \in Ids \ {id} : states[i].project = p => states[i].at = "done"
  BY <1>2, <1>3 DEF Good, OneRun
<1>6. \A i \in Ids \ {id} : \A j \in DOMAIN jobs : states[i].project = p => jobs[j].for # i
  BY <1>0, <1>5 DEF TurnsAgree
<1> QED BY <1>1, <1>2, <1>3, <1>4, <1>5, <1>6 DEF Good, OneRun, NamesStand

\* So that of its own project only the runner's jobs have to be looked at.
LEMMA Works ==
  ASSUME IndInv, UNCHANGED <<runs, polls, disturbed>>, \A i \in Ids : Moves(i),
         NEW id \in Ids, NEW p, states[id].project = p, p \notin disturbed,
         states[id].at # "done", states'[id].status # "ready",
         enrichmentCache'[p] = enrichmentCache[p],
         \A j, k \in DOMAIN jobs' : jobs'[j].for = id /\ j < k => jobs'[k].project # p,
         \A i \in Ids \ {id} : \A j \in DOMAIN jobs' : states[i].project = p => jobs'[j].for # i,
         states'[id].at \in {"check", "import"} => Unasked(p)',
         states'[id].at = "import" => discovered'[p] = TimeOf[states[id].snapshot]
  PROVE  Good(p)'
<1>1. /\ p \in Projects /\ runs[p] = id /\ enrichmentCache[p] = None
      /\ \A t \in Tabs : ProjectOf(t) = p => ~Missed(t) /\ polls[t].at # "enrich"
      /\ \A i \in Ids \ {id} : states[i].project = p => states[i].at = "done"
  BY Working
<1>2. OneRun(p)'
  BY <1>1, MovesInv
<1>3. LastJob(p)'
  BY <1>1 DEF LastJob, Moves
<1>4. SeenStands(p)'
  BY <1>1 DEF SeenStands, ProjectOf, Missed
<1>5. NamesStand(p)'
  BY <1>1 DEF NamesStand, Ready, ProjectOf
<1> QED BY <1>2, <1>3, <1>4, <1>5 DEF Good

\* A run that moves on without the queues.
LEMMA GotoMoves ==
  ASSUME TypeOK, StatesFit, NEW id \in Ids, states[id].at # "done",
         NEW at \in {"queued", "asked", "check", "import"}, Goto(id, at)
  PROVE  /\ \A i \in Ids : Moves(i) /\ (i # id => states'[i] = states[i])
         /\ states'[id].at = at /\ states'[id].status = "discovering"
         /\ states'[id].project = states[id].project /\ states'[id].snapshot = states[id].snapshot
         /\ states' \in [Ids -> StateRecords]
<1>1. states[id] \in StateRecords /\ states[id].status = "discovering"
  BY Types DEF StatesFit
<1>2. /\ \A i \in Ids : i # id => states'[i] = states[i]
      /\ states'[id] = [states[id] EXCEPT !.at = at]
  BY Types DEF Goto
<1>3. states'[id] \in StateRecords
  BY <1>1, <1>2 DEF StateRecords
<1>4. states' \in [Ids -> StateRecords]
  BY <1>3, Types DEF Goto
<1>5. /\ states'[id].at = at /\ states'[id].status = "discovering"
      /\ states'[id].project = states[id].project /\ states'[id].snapshot = states[id].snapshot
  BY <1>1, <1>2 DEF StateRecords
<1>6. ASSUME NEW i \in Ids PROVE Moves(i) /\ (i # id => states'[i] = states[i])
  <2>1. CASE i = id
    BY <1>1, <1>5, <2>1 DEF Moves
  <2>2. CASE i # id
    BY <1>2, <2>2 DEF Moves
  <2> QED BY <2>1, <2>2
<1> QED BY <1>4, <1>5, <1>6

LEMMA EndsMoves ==
  ASSUME TypeOK, StatesFit, NEW id \in Ids, states[id].at # "done",
         NEW status \in {"ready", "error"}, Ends(id, status)
  PROVE  /\ \A i \in Ids : Moves(i) /\ (i # id => states'[i] = states[i])
         /\ states'[id].at = "done" /\ states'[id].status = status
         /\ states'[id].project = states[id].project /\ states'[id].snapshot = states[id].snapshot
         /\ states' \in [Ids -> StateRecords]
<1>1. states[id] \in StateRecords
  BY Types
<1>2. /\ \A i \in Ids : i # id => states'[i] = states[i]
      /\ states'[id] = [states[id] EXCEPT !.at = "done", !.status = status]
  BY Types DEF Ends
<1>3. states'[id] \in StateRecords
  BY <1>1, <1>2 DEF StateRecords
<1>4. states' \in [Ids -> StateRecords]
  BY <1>3, Types DEF Ends
<1>5. /\ states'[id].at = "done" /\ states'[id].status = status
      /\ states'[id].project = states[id].project /\ states'[id].snapshot = states[id].snapshot
  BY <1>1, <1>2 DEF StateRecords
<1>6. ASSUME NEW i \in Ids PROVE Moves(i) /\ (i # id => states'[i] = states[i])
  <2>1. CASE i = id
    BY <1>1, <1>5, <2>1 DEF Moves
  <2>2. CASE i # id
    BY <1>2, <2>2 DEF Moves
  <2> QED BY <2>1, <2>2
<1> QED BY <1>4, <1>5, <1>6

\* The jobs are each of the project of the run they are for.
LEMMA JobsFit ==
  ASSUME TypeOK, StatesFit, NEW i \in DOMAIN jobs, jobs[i].for # None
  PROVE  states[jobs[i].for].project = jobs[i].project /\ jobs[i].for \in Ids
BY Types DEF StatesFit, JobRecords

LEMMA TracesInv == ASSUME IndInv, NEW id \in Ids, Traces(id) PROVE IndInv'
<1>0. TypeOK /\ TurnsAgree /\ StatesFit
  BY DEF IndInv, TurnsAgree
<1>1. /\ states[id].at = "traces" /\ turns' = Append(turns, id)
      /\ UNCHANGED <<runs, jobs, discovered, recorded, enrichmentCache, polls, disturbed,
                     chain, faults, reorgs>>
  BY DEF Traces, disk, bounds
<1>2. /\ \A i \in Ids : Moves(i) /\ (i # id => states'[i] = states[i])
      /\ states'[id].at = "queued" /\ states'[id].status = "discovering"
      /\ states'[id].project = states[id].project
      /\ states' \in [Ids -> StateRecords]
  BY <1>0, <1>1, GotoMoves DEF Traces
<1>3. /\ id \notin Range(turns) /\ turns' \in Seq(Ids) /\ IsInjective(turns')
      /\ Range(turns') = Range(turns) \cup {id}
      /\ turns # <<>> => Head(turns') = Head(turns)
  <2>1. id \notin Range(turns) /\ turns \in Seq(Ids) /\ IsInjective(turns)
    BY <1>0, <1>1, Types DEF TurnsAgree
  <2> QED BY <2>1, <1>1, Joins, AppendFacts
<1>4. TypeOK'
  BY <1>0, <1>1, <1>2, <1>3 DEF TypeOK, StateRecords
<1>5. TurnsAgree'
  <2>1. \A i \in Ids : states[i].at = "asked" => turns # <<>>
    BY <1>0 DEF TurnsAgree, Range
  <2>2. ASSUME NEW i \in Ids
        PROVE  /\ states'[i].at \in {"queued", "asked"} <=> i \in Range(turns')
               /\ states'[i].at = "asked" => Head(turns') = i
               /\ states'[i].at = "asked" <=> \E j \in DOMAIN jobs : jobs[j].for = i
    BY <2>1, <1>0, <1>1, <1>2, <1>3 DEF TurnsAgree
  <2> QED BY <2>2, <1>0, <1>1, <1>4 DEF TurnsAgree
<1>6. StatesFit' /\ ToldTogether'
  BY <1>0, <1>1, <1>2, JobsFit, MovesInv
<1>7. ASSUME NEW q \in Projects \ disturbed PROVE Good(q)'
  <2>0. Good(q)
    BY <1>7 DEF IndInv, Good
  <2>1. CASE q = states[id].project
    <3>1. \A i \in Ids \ {id} : \A j \in DOMAIN jobs : states[i].project = q => jobs[j].for # i
      BY <2>1, <1>1, <1>7, Working
    <3> QED BY <3>1, <2>0, <2>1, <1>1, <1>2, <1>7, Works DEF Good, LastJob
  <2>2. CASE q # states[id].project
    BY <2>0, <2>2, <1>1, <1>2, Untouched DEF Unasked, Good, LastJob
  <2> QED BY <2>1, <2>2
<1> QED BY <1>1, <1>5, <1>6, <1>7 DEF IndInv, Good

\* The job joins the runner's queue.
LEMMA PostInv == ASSUME IndInv, NEW id \in Ids, Post(id) PROVE IndInv'
<1> DEFINE job == [project |-> states[id].project, time |-> TimeOf[states[id].snapshot],
                   for |-> id, writes |-> FALSE]
           last == Len(jobs) + 1
<1>0. TypeOK /\ TurnsAgree /\ StatesFit
  BY DEF IndInv, TurnsAgree
<1>1. /\ states[id].at = "queued" /\ Head(turns) = id /\ jobs' = Append(jobs, job)
      /\ UNCHANGED <<runs, turns, discovered, recorded, enrichmentCache, polls, disturbed,
                     chain, faults, reorgs>>
  BY DEF Post, disk, bounds
<1>2. /\ \A i \in Ids : Moves(i) /\ (i # id => states'[i] = states[i])
      /\ states'[id].at = "asked" /\ states'[id].status = "discovering"
      /\ states'[id].project = states[id].project
      /\ states' \in [Ids -> StateRecords]
  BY <1>0, <1>1, GotoMoves DEF Post
<1>3. job \in JobRecords
  BY <1>0, <1>1 DEF StatesFit, Times, JobRecords
<1>4. /\ jobs' \in Seq(JobRecords) /\ DOMAIN jobs = 1..Len(jobs) /\ DOMAIN jobs' = 1..last
      /\ Len(jobs) \in Nat
      /\ \A i \in DOMAIN jobs : jobs'[i] = jobs[i]
      /\ jobs'[last].for = id /\ jobs'[last].project = states[id].project
  <2>1. jobs \in Seq(JobRecords)
    BY <1>0, Types
  <2> HIDE DEF job
  <2>2. jobs'[last] = job
    BY <2>1, <1>1, <1>3, AppendFacts
  <2>3. job.for = id /\ job.project = states[id].project
    BY DEF job
  <2> QED BY <2>1, <2>2, <2>3, <1>1, <1>3, AppendFacts
<1>5. \A i \in DOMAIN jobs : jobs[i].for # id
  BY <1>0, <1>1 DEF TurnsAgree
<1>6. TypeOK'
  BY <1>0, <1>1, <1>2, <1>4 DEF TypeOK, StateRecords, JobRecords
<1>7. TurnsAgree'
  <2>1. ASSUME NEW i \in Ids
        PROVE  /\ states'[i].at \in {"queued", "asked"} <=> i \in Range(turns')
               /\ states'[i].at = "asked" => Head(turns') = i
               /\ states'[i].at = "asked" <=> \E j \in DOMAIN jobs' : jobs'[j].for = i
    BY <1>0, <1>1, <1>2, <1>4, <1>5 DEF TurnsAgree
  <2>2. \A i, j \in DOMAIN jobs' : jobs'[i].for = jobs'[j].for /\ i # j => jobs'[i].for = None
    BY <1>0, <1>4, <1>5 DEF TurnsAgree
  <2> QED BY <2>1, <2>2, <1>6 DEF TurnsAgree
<1>8. StatesFit' /\ ToldTogether'
  <2>1. \A i \in DOMAIN jobs' : jobs'[i].for # None =>
          states[jobs'[i].for].project = jobs'[i].project /\ jobs'[i].for \in Ids
    BY <1>0, <1>4, JobsFit
  <2> QED BY <2>1, <1>1, <1>2, MovesInv
<1>9. ASSUME NEW q \in Projects \ disturbed PROVE Good(q)'
  <2>0. Good(q)
    BY <1>9 DEF IndInv, Good
  <2>1. CASE q = states[id].project
    <3>1. \A i \in Ids \ {id} : \A j \in DOMAIN jobs : states[i].project = q => jobs[j].for # i
      BY <2>1, <1>1, <1>9, Working
    <3>2. \A i \in Ids \ {id} : \A j \in DOMAIN jobs' : states[i].project = q => jobs'[j].for # i
      BY <3>1, <1>4
    <3>3. \A j, k \in DOMAIN jobs' : jobs'[j].for = id /\ j < k => jobs'[k].project # q
      BY <1>4, <1>5
    <3> QED BY <3>2, <3>3, <2>1, <1>1, <1>2, <1>9, Works
  <2>2. CASE q # states[id].project
    <3>1. Unasked(q) => Unasked(q)'
      BY <2>2, <1>4 DEF Unasked
    <3>2. \A i \in Ids : \A j, k \in DOMAIN jobs' :
           states[i].project = q /\ jobs'[j].for = i /\ j < k => jobs'[k].project # q
      BY <2>0, <2>2, <1>4 DEF Good, LastJob
    <3> QED BY <3>1, <3>2, <2>2, <1>1, <1>2, Untouched
  <2> QED BY <2>1, <2>2
<1> QED BY <1>1, <1>7, <1>8, <1>9 DEF IndInv, Good

\* A run that moves on, or ends, outside both queues.
LEMMA Aside ==
  ASSUME IndInv, NEW id \in Ids, states[id].at \in {"traces", "check", "import"},
         states'[id].at \in {"import", "done"}, \A i \in Ids : Moves(i),
         \A i \in Ids : i # id => states'[i] = states[i],
         UNCHANGED <<runs, turns, jobs, polls, disturbed>>, TypeOK'
  PROVE  TurnsAgree' /\ StatesFit' /\ ToldTogether'
<1>0. TypeOK /\ TurnsAgree /\ StatesFit
  BY DEF IndInv, TurnsAgree
<1>1. ASSUME NEW i \in Ids
      PROVE  /\ states'[i].at \in {"queued", "asked"} <=> states[i].at \in {"queued", "asked"}
             /\ states'[i].at = "asked" <=> states[i].at = "asked"
  BY <1>0
<1>2. TurnsAgree'
  BY <1>0, <1>1 DEF TurnsAgree
<1>3. StatesFit' /\ ToldTogether'
  BY <1>0, JobsFit, MovesInv
<1> QED BY <1>2, <1>3

LEMMA CheckInv == ASSUME IndInv, NEW id \in Ids, Check(id) PROVE IndInv'
<1> DEFINE p == states[id].project
           found == discovered[p] = TimeOf[states[id].snapshot]
<1>0. TypeOK /\ TurnsAgree /\ StatesFit
  BY DEF IndInv, TurnsAgree
<1>1. /\ states[id].at = "check"
      /\ UNCHANGED <<runs, turns, jobs, discovered, recorded, enrichmentCache, polls, disturbed,
                     chain, faults, reorgs>>
  BY DEF Check, disk, bounds
<1>2. /\ \A i \in Ids : Moves(i) /\ (i # id => states'[i] = states[i])
      /\ found => states'[id].at = "import" /\ states'[id].status = "discovering"
      /\ ~found => states'[id].at = "done" /\ states'[id].status = "error"
      /\ states' \in [Ids -> StateRecords]
  BY <1>0, <1>1, GotoMoves, EndsMoves DEF Check
<1>3. TypeOK'
  BY <1>0, <1>1, <1>2 DEF TypeOK, StateRecords
<1>4. TurnsAgree' /\ StatesFit' /\ ToldTogether'
  BY <1>1, <1>2, <1>3, Aside
<1>5. ASSUME NEW q \in Projects \ disturbed PROVE Good(q)'
  <2>0. Good(q)
    BY <1>5 DEF IndInv, Good
  <2>1. CASE q = p
    <3>1. \A i \in Ids \ {id} : \A j \in DOMAIN jobs : states[i].project = q => jobs[j].for # i
      BY <2>1, <1>1, <1>5, Working
    <3>2. Unasked(q)
      BY <2>0, <2>1, <1>1 DEF Good, LastJob
    <3>3. \A j, k \in DOMAIN jobs' : jobs'[j].for = id /\ j < k => jobs'[k].project # q
      BY <3>2, <1>1 DEF Unasked
    <3>4. Unasked(q)'
      BY <3>2, <1>1 DEF Unasked
    <3>5. /\ states'[id].status # "ready"
          /\ states'[id].at = "import" => discovered'[q] = TimeOf[states[id].snapshot]
      BY <1>1, <1>2, <2>1
    <3> HIDE DEF p, found
    <3> QED BY <3>1, <3>3, <3>4, <3>5, <2>1, <1>1, <1>2, <1>5, Works DEF p
  <2>2. CASE q # p
    BY <2>0, <2>2, <1>1, <1>2, Untouched DEF Unasked, Good, LastJob
  <2> QED BY <2>1, <2>2
<1> QED BY <1>1, <1>4, <1>5 DEF IndInv, Good

\* A run is recorded: its project becomes ready, on disk and unasked.
LEMMA RecordInv == ASSUME IndInv, NEW id \in Ids, Record(id) PROVE IndInv'
<1> DEFINE p == states[id].project
           s == states[id].snapshot
<1>0. TypeOK /\ TurnsAgree /\ StatesFit
  BY DEF IndInv, TurnsAgree
<1>1. /\ states[id].at = "import" /\ p \in Projects /\ s \in Snaps
      /\ recorded' = [recorded EXCEPT ![p] = s]
      /\ enrichmentCache' = [enrichmentCache EXCEPT ![p] = None]
      /\ UNCHANGED <<runs, turns, jobs, discovered, polls, disturbed, chain, faults, reorgs>>
  BY <1>0 DEF Record, bounds, StatesFit
<1>2. /\ \A i \in Ids : Moves(i) /\ (i # id => states'[i] = states[i])
      /\ states'[id].at = "done" /\ states'[id].status = "ready"
      /\ states'[id].snapshot = s
      /\ states' \in [Ids -> StateRecords]
  BY <1>0, <1>1, EndsMoves DEF Record
<1>3. /\ recorded'[p] = s /\ enrichmentCache'[p] = None
      /\ \A q \in Projects \ {p} : recorded'[q] = recorded[q] /\ enrichmentCache'[q] = enrichmentCache[q]
      /\ recorded' \in [Projects -> Snaps \cup {None}]
      /\ enrichmentCache' \in [Projects -> Times \cup {None}]
  BY <1>0, <1>1, Types
<1>4. TypeOK'
  BY <1>0, <1>1, <1>2, <1>3 DEF TypeOK, StateRecords
<1>5. TurnsAgree' /\ StatesFit' /\ ToldTogether'
  BY <1>1, <1>2, <1>4, Aside
<1>6. ASSUME NEW q \in Projects \ disturbed PROVE Good(q)'
  <2>0. Good(q)
    BY <1>6 DEF IndInv, Good
  <2>1. CASE q = p
    <3>1. /\ runs[q] = id
          /\ \A t \in Tabs : ProjectOf(t) = q => ~Missed(t) /\ polls[t].at # "enrich"
          /\ \A i \in Ids \ {id} : states[i].project = q => states[i].at = "done"
          /\ \A i \in Ids \ {id} : \A j \in DOMAIN jobs : states[i].project = q => jobs[j].for # i
      BY <2>1, <1>1, <1>6, Working
    <3>2. Unasked(q) /\ discovered[q] = TimeOf[s]
      BY <2>0, <2>1, <1>1 DEF Good, LastJob
    <3>3. Unasked(q)'
      BY <3>2, <1>1 DEF Unasked
    <3>4. OneRun(q)'
      BY <1>1, <1>2, <1>6, MovesInv
    <3>5. LastJob(q)'
      BY <3>1, <3>2, <3>3, <1>1, <1>2 DEF LastJob, Moves, Unasked
    <3>6. SeenStands(q)'
      BY <3>1, <1>1 DEF SeenStands, ProjectOf, Missed
    <3>7. OnDisk(q, states[runs[q]].snapshot)'
      BY <2>1, <3>1, <3>2, <1>1, <1>2, <1>3 DEF OnDisk
    <3>8. NamesStand(q)'
      BY <2>1, <3>1, <3>3, <3>7, <1>1, <1>3 DEF NamesStand, ProjectOf
    <3> QED BY <3>4, <3>5, <3>6, <3>8 DEF Good
  <2>2. CASE q # p
    BY <2>0, <2>2, <1>1, <1>2, <1>3, Untouched DEF Unasked, Good, LastJob
  <2> QED BY <2>1, <2>2
<1> QED BY <1>1, <1>5, <1>6 DEF IndInv, Good

LEMMA FailsInv == ASSUME IndInv, NEW id \in Ids, Fails(id) PROVE IndInv'
<1> DEFINE p == states[id].project
<1>0. TypeOK /\ TurnsAgree /\ StatesFit
  BY DEF IndInv, TurnsAgree
<1>1. /\ states[id].at \in {"traces", "import"} /\ faults' \in 0..MaxFaults
      /\ UNCHANGED <<runs, turns, jobs, discovered, recorded, enrichmentCache, polls, disturbed,
                     chain, reorgs>>
  BY <1>0, Types, BoundAssumption DEF Fails, disk
<1>2. /\ \A i \in Ids : Moves(i) /\ (i # id => states'[i] = states[i])
      /\ states'[id].at = "done" /\ states'[id].status = "error"
      /\ states' \in [Ids -> StateRecords]
  BY <1>0, <1>1, EndsMoves DEF Fails
<1>3. TypeOK'
  BY <1>0, <1>1, <1>2 DEF TypeOK, StateRecords
<1>4. TurnsAgree' /\ StatesFit' /\ ToldTogether'
  BY <1>1, <1>2, <1>3, Aside
<1>5. ASSUME NEW q \in Projects \ disturbed PROVE Good(q)'
  <2>0. Good(q)
    BY <1>5 DEF IndInv, Good
  <2>1. CASE q = p
    <3>1. \A i \in Ids \ {id} : \A j \in DOMAIN jobs : states[i].project = q => jobs[j].for # i
      BY <2>1, <1>1, <1>5, Working
    <3>2. \A j, k \in DOMAIN jobs' : jobs'[j].for = id /\ j < k => jobs'[k].project # q
      BY <2>0, <2>1, <1>1 DEF Good, LastJob
    <3> QED BY <3>1, <3>2, <2>1, <1>1, <1>2, <1>5, Works
  <2>2. CASE q # p
    BY <2>0, <2>2, <1>1, <1>2, Untouched DEF Unasked, Good, LastJob
  <2> QED BY <2>1, <2>2
<1> QED BY <1>1, <1>4, <1>5 DEF IndInv, Good

\* Only the first of turns has a job, and when it has been answered, or has given up,
\* nobody has one until the next is posted.
LEMMA Asked ==
  ASSUME IndInv, NEW id \in Ids, states[id].at = "asked"
  PROVE  /\ turns # <<>> /\ Head(turns) = id /\ Tail(turns) \in Seq(Ids) /\ IsInjective(Tail(turns))
         /\ Range(Tail(turns)) = Range(turns) \ {id} /\ id \in Range(turns)
         /\ \A i \in Ids : states[i].at = "asked" => i = id
         /\ \A j \in DOMAIN jobs : jobs[j].for \in {id, None}
<1>0. TypeOK /\ TurnsAgree
  BY DEF IndInv, TurnsAgree
<1>1. id \in Range(turns) /\ Head(turns) = id /\ turns \in Seq(Ids) /\ IsInjective(turns)
  BY <1>0, Types DEF TurnsAgree
<1>2. turns # <<>>
  BY <1>1 DEF Range
<1>3. \A i \in Ids : states[i].at = "asked" => i = id
  BY <1>0, <1>1 DEF TurnsAgree
<1>4. \A j \in DOMAIN jobs : jobs[j].for \in {id, None}
  BY <1>0, <1>3, Types DEF TurnsAgree, JobRecords
<1>5. Tail(turns) \in Seq(Ids)
  BY <1>1, <1>2, TailFacts
<1> QED BY <1>1, <1>2, <1>3, <1>4, <1>5, Leaves

\* A turn ends.
LEMMA TurnEnds ==
  ASSUME IndInv, NEW id \in Ids, states[id].at = "asked", states'[id].at \in {"check", "done"},
         \A i \in Ids : Moves(i), \A i \in Ids : i # id => states'[i] = states[i],
         turns' = Tail(turns), \A j \in DOMAIN jobs' : jobs'[j].for = None,
         UNCHANGED <<runs, polls, disturbed>>, TypeOK'
  PROVE  TurnsAgree' /\ StatesFit' /\ ToldTogether'
<1>0. TypeOK /\ TurnsAgree /\ StatesFit
  BY DEF IndInv, TurnsAgree
<1>1. /\ Head(turns) = id /\ Range(turns') = Range(turns) \ {id}
      /\ \A i \in Ids : states[i].at = "asked" => i = id
  BY Asked
<1>2. ASSUME NEW i \in Ids
      PROVE  /\ states'[i].at \in {"queued", "asked"} <=> i \in Range(turns')
             /\ states'[i].at # "asked"
  BY <1>0, <1>1 DEF TurnsAgree
<1>3. TurnsAgree'
  BY <1>2, NoneFacts DEF TurnsAgree
<1>4. StatesFit' /\ ToldTogether'
  BY MovesInv
<1> QED BY <1>3, <1>4

LEMMA AbortInv == ASSUME IndInv, NEW id \in Ids, Abort(id) PROVE IndInv'
<1> DEFINE p == states[id].project
<1>0. TypeOK /\ TurnsAgree /\ StatesFit
  BY DEF IndInv, TurnsAgree
<1>1. /\ states[id].at = "asked" /\ faults' \in 0..MaxFaults
      /\ turns' = Tail(turns)
      /\ jobs' = [i \in DOMAIN jobs |->
                    IF jobs[i].for = id THEN [jobs[i] EXCEPT !.for = None] ELSE jobs[i]]
      /\ UNCHANGED <<runs, discovered, recorded, enrichmentCache, polls, disturbed, chain, reorgs>>
  BY <1>0, Types, BoundAssumption DEF Abort, disk
<1>2. /\ \A i \in Ids : Moves(i) /\ (i # id => states'[i] = states[i])
      /\ states'[id].at = "done" /\ states'[id].status = "error"
      /\ states' \in [Ids -> StateRecords]
  BY <1>0, <1>1, EndsMoves DEF Abort
<1>3. \A i \in DOMAIN jobs : /\ jobs'[i] \in JobRecords /\ jobs'[i].for = None
                             /\ jobs'[i].project = jobs[i].project
  <2> SUFFICES ASSUME NEW i \in DOMAIN jobs
               PROVE  /\ jobs'[i] \in JobRecords /\ jobs'[i].for = None
                      /\ jobs'[i].project = jobs[i].project
    OBVIOUS
  <2>1. jobs[i] \in JobRecords /\ jobs[i].for \in {id, None}
    BY <1>0, <1>1, Types, Asked
  <2>2. jobs'[i] = IF jobs[i].for = id THEN [jobs[i] EXCEPT !.for = None] ELSE jobs[i]
    BY <1>1
  <2> QED BY <2>1, <2>2 DEF JobRecords
<1>4. jobs' \in Seq(JobRecords) /\ DOMAIN jobs' = DOMAIN jobs
  <2>1. jobs' = [i \in DOMAIN jobs |-> jobs'[i]]
    BY <1>1
  <2>2. jobs \in Seq(JobRecords)
    BY <1>0, Types
  <2> QED BY <2>1, <2>2, <1>3, MapFacts
<1>5. TypeOK'
  BY <1>0, <1>1, <1>2, <1>4, Asked DEF TypeOK, StateRecords, JobRecords
<1>6. TurnsAgree' /\ StatesFit' /\ ToldTogether'
  BY <1>1, <1>2, <1>3, <1>4, <1>5, TurnEnds
<1>7. ASSUME NEW q \in Projects \ disturbed PROVE Good(q)'
  <2>1. \A i \in Ids : \A j \in DOMAIN jobs' : jobs'[j].for # i
    BY <1>3, <1>4, NoneFacts
  <2>2. CASE q = p
    BY <2>1, <2>2, <1>1, <1>2, <1>7, Works
  <2>3. CASE q # p
    <3>1. Unasked(q) => Unasked(q)'
      BY <1>3, <1>4 DEF Unasked
    <3> QED BY <3>1, <2>1, <2>3, <1>1, <1>2, Untouched
  <2> QED BY <2>2, <2>3
<1> QED BY <1>1, <1>6, <1>7 DEF IndInv, Good

\* What is not of the job's project does not see it.
LEMMA JobWritesInv == ASSUME IndInv, JobWrites PROVE IndInv'
<1> DEFINE p == Head(jobs).project
<1>0. TypeOK /\ TurnsAgree /\ StatesFit
  BY DEF IndInv, TurnsAgree
<1>1. /\ jobs # <<>> /\ jobs' = [jobs EXCEPT ![1].writes = TRUE]
      /\ discovered' = [discovered EXCEPT ![p] = None]
      /\ UNCHANGED <<runs, states, turns, recorded, enrichmentCache, polls, disturbed,
                     chain, faults, reorgs>>
  BY DEF JobWrites, bounds
<1>2. 1 \in DOMAIN jobs /\ Head(jobs) = jobs[1] /\ p \in Projects /\ jobs \in Seq(JobRecords)
  BY <1>0, <1>1, Types, TailFacts DEF JobRecords
<1>3. \A i \in DOMAIN jobs : /\ jobs'[i] \in JobRecords /\ jobs'[i].for = jobs[i].for
                             /\ jobs'[i].project = jobs[i].project
  BY <1>0, <1>1, Types DEF JobRecords
<1>4. jobs' \in Seq(JobRecords) /\ DOMAIN jobs' = DOMAIN jobs
  <2>1. jobs' = [i \in DOMAIN jobs |-> jobs'[i]]
    BY <1>1
  <2> QED BY <2>1, <1>2, <1>3, MapFacts
<1>5. /\ discovered' \in [Projects -> Times \cup {None}]
      /\ \A q \in Projects \ {p} : discovered'[q] = discovered[q]
  BY <1>0, <1>1, <1>2, Types
<1>6. TypeOK'
  BY <1>0, <1>1, <1>4, <1>5 DEF TypeOK, JobRecords
<1>7. TurnsAgree'
  BY <1>0, <1>1, <1>3, <1>4, <1>6 DEF TurnsAgree
<1>8. StatesFit' /\ ToldTogether'
  BY <1>0, <1>1, <1>3, <1>4, JobsFit, MovesInv DEF Moves
<1>9. ASSUME NEW q \in Projects \ disturbed PROVE Good(q)'
  <2>0. Good(q) /\ (Unasked(q)' <=> Unasked(q))
    BY <1>9, <1>3, <1>4 DEF IndInv, Good, Unasked
  <2>1. LastJob(q)'
    <3>1. \A i \in Ids : \A j, k \in DOMAIN jobs' :
           states[i].project = q /\ jobs'[j].for = i /\ j < k => jobs'[k].project # q
      BY <2>0, <1>3, <1>4 DEF Good, LastJob
    <3>2. Unasked(q) => q # p
      BY <1>2 DEF Unasked
    <3> QED BY <3>1, <3>2, <2>0, <1>1, <1>5 DEF Good, LastJob
  <2>2. CASE q # p
    BY <2>0, <2>1, <2>2, <1>1, <1>5, Untouched DEF LastJob, Moves
  <2>3. CASE q = p
    <3>1. ~Unasked(q)
      BY <2>3, <1>2 DEF Unasked
    <3>2. OneRun(q)'
      BY <1>1, MovesInv DEF Moves
    <3>3. SeenStands(q)'
      BY <3>1, <2>0, <1>1 DEF Good, SeenStands, ProjectOf
    <3>4. NamesStand(q)'
      BY <3>1, <2>0, <1>1 DEF Good, NamesStand, Ready, ProjectOf
    <3> QED BY <3>2, <3>3, <3>4, <2>1 DEF Good
  <2> QED BY <2>2, <2>3
<1> QED BY <1>1, <1>7, <1>8, <1>9 DEF IndInv, Good

\* The first job ends, whatever has become of the file of its project.
LEMMA AnswerInv ==
  ASSUME IndInv, jobs # <<>>, NEW at, NEW status,
         \/ at = "check" /\ status = "discovering"
         \/ at = "done" /\ status = "error",
         Answer(at, status), faults' \in 0..MaxFaults,
         discovered' \in [Projects -> Times \cup {None}],
         \A q \in Projects : q # Head(jobs).project => discovered'[q] = discovered[q],
         UNCHANGED <<runs, recorded, enrichmentCache, polls, disturbed, chain, reorgs>>
  PROVE  IndInv'
<1> DEFINE p == Head(jobs).project
           id == Head(jobs).for
<1>0. TypeOK /\ TurnsAgree /\ StatesFit
  BY DEF IndInv, TurnsAgree
<1>1. 1 \in DOMAIN jobs /\ Head(jobs) = jobs[1] /\ p \in Projects /\ id \in Ids \cup {None}
  BY <1>0, Types, TailFacts DEF JobRecords
<1>2. /\ jobs' \in Seq(JobRecords) /\ DOMAIN jobs \subseteq Int
      /\ \A i \in DOMAIN jobs' : i + 1 \in DOMAIN jobs /\ jobs'[i] = jobs[i + 1]
      /\ \A i \in DOMAIN jobs : i >= 1 /\ (i # 1 => i - 1 \in DOMAIN jobs' /\ jobs'[i - 1] = jobs[i])
      /\ DOMAIN jobs' \subseteq Nat \ {0}
  <2>1. jobs \in Seq(JobRecords) /\ jobs' = Tail(jobs)
    BY <1>0, Types DEF Answer
  <2>2. Len(jobs) \in Nat /\ DOMAIN jobs = 1..Len(jobs)
    BY <2>1, TailFacts
  <2> QED BY <2>1, <2>2, TailFacts
<1>3. CASE id = None
  <2>1. UNCHANGED <<states, turns>> /\ \A i \in Ids : Moves(i)
    BY <1>3 DEF Answer, Moves
  <2>2. TypeOK'
    BY <2>1, <1>0, <1>2 DEF TypeOK, JobRecords
  <2>3. TurnsAgree'
    <3>1. ASSUME NEW i \in Ids
          PROVE (\E j \in DOMAIN jobs : jobs[j].for = i) <=> \E j \in DOMAIN jobs' : jobs'[j].for = i
      BY <1>1, <1>2, <1>3, NoneFacts
    <3>2. \A i, j \in DOMAIN jobs' : jobs'[i].for = jobs'[j].for /\ i # j => jobs'[i].for = None
      BY <1>0, <1>2 DEF TurnsAgree
    <3> QED BY <3>1, <3>2, <2>1, <2>2, <1>0 DEF TurnsAgree
  <2>4. StatesFit' /\ ToldTogether'
    BY <2>1, <1>0, <1>2, JobsFit, MovesInv
  <2>5. ASSUME NEW q \in Projects \ disturbed PROVE Good(q)'
    <3>0. Good(q)
      BY <2>5 DEF IndInv, Good
    <3>1. Unasked(q) => Unasked(q)'
      BY <1>2 DEF Unasked
    <3>2. \A i \in Ids : \A j, k \in DOMAIN jobs' :
           states[i].project = q /\ jobs'[j].for = i /\ j < k => jobs'[k].project # q
      <4>1. \A i \in Ids : \A j, k \in DOMAIN jobs :
             states[i].project = q /\ jobs[j].for = i /\ j < k => jobs[k].project # q
        BY <3>0 DEF Good, LastJob
      <4>2. \A j, k \in DOMAIN jobs' : j < k => j + 1 < k + 1
        BY <1>2
      <4> QED BY <4>1, <4>2, <1>2
    <3>3. CASE q # p
      BY <3>1, <3>2, <3>3, <2>1, Untouched DEF Moves
    <3>4. CASE q = p
      <4>1. ~Unasked(q)
        BY <3>4, <1>1 DEF Unasked
      <4>2. OneRun(q)'
        BY <2>1, <2>5, MovesInv
      <4>3. LastJob(q)'
        BY <4>1, <3>0, <3>2, <2>1 DEF Good, LastJob
      <4>4. SeenStands(q)'
        BY <4>1, <3>0 DEF Good, SeenStands, ProjectOf
      <4>5. NamesStand(q)'
        BY <4>1, <3>0, <2>1 DEF Good, NamesStand, Ready, ProjectOf
      <4> QED BY <4>2, <4>3, <4>4, <4>5 DEF Good
    <3> QED BY <3>3, <3>4
  <2> QED BY <2>3, <2>4, <2>5 DEF IndInv, Good
<1>4. CASE id # None
  <2>1. /\ id \in Ids /\ states[id].at = "asked" /\ states[id].status = "discovering"
        /\ states[id].project = p /\ states[id] \in StateRecords
    BY <1>0, <1>1, <1>4, Types, JobsFit DEF TurnsAgree, StatesFit
  <2>2. /\ states' = [states EXCEPT ![id].at = at, ![id].status = status]
        /\ turns' = Tail(turns)
    BY <1>4 DEF Answer
  <2>3. /\ \A i \in Ids : Moves(i) /\ (i # id => states'[i] = states[i])
        /\ states'[id].at = at /\ states'[id].status = status
        /\ states' \in [Ids -> StateRecords]
    <3>1. /\ \A i \in Ids : i # id => states'[i] = states[i]
          /\ states'[id] = [states[id] EXCEPT !.at = at, !.status = status]
      BY <2>1, <2>2, <1>0, Types
    <3>2. states'[id] \in StateRecords
      BY <2>1, <3>1 DEF StateRecords
    <3>3. states' \in [Ids -> StateRecords]
      BY <3>2, <2>2, <1>0, Types
    <3>4. \A i \in Ids \ {id} : Moves(i)
      BY <3>1 DEF Moves
    <3>5. Moves(id) /\ states'[id].at = at /\ states'[id].status = status
      <4>1. states[id] \in [project : Projects \cup {None}, snapshot : Snaps \cup {None},
                            status : {"discovering", "ready", "error"},
                            at : {"traces", "queued", "asked", "check", "import", "done"}]
        BY <2>1 DEF StateRecords
      <4> QED BY <2>1, <3>1, <4>1 DEF Moves
    <3> QED BY <3>1, <3>3, <3>4, <3>5
  <2>4. \A j \in DOMAIN jobs' : jobs'[j].for = None
    BY <2>1, <1>0, <1>1, <1>2, Asked DEF TurnsAgree
  <2>5. TypeOK'
    BY <2>1, <2>2, <2>3, <1>0, <1>2, Asked DEF TypeOK, StateRecords, JobRecords
  <2>6. TurnsAgree' /\ StatesFit' /\ ToldTogether'
    BY <2>1, <2>2, <2>3, <2>4, <2>5, TurnEnds
  <2>7. ASSUME NEW q \in Projects \ disturbed PROVE Good(q)'
    <3>0. Good(q)
      BY <2>7 DEF IndInv, Good
    <3>1. \A i \in Ids : \A j \in DOMAIN jobs' : jobs'[j].for # i
      BY <2>4, NoneFacts
    <3>2. CASE q = p
      <4>1. Unasked(q)'
        <5>1. \A j \in DOMAIN jobs : 1 < j => jobs[j].project # q
          BY <3>0, <3>2, <2>1, <1>1 DEF Good, LastJob
        <5>2. \A j \in DOMAIN jobs' : 1 < j + 1 /\ j + 1 \in DOMAIN jobs /\ jobs'[j] = jobs[j + 1]
          BY <1>2
        <5> QED BY <5>1, <5>2 DEF Unasked
      <4> QED BY <4>1, <3>1, <3>2, <2>1, <2>3, <2>7, Works
    <3>3. CASE q # p
      <4>1. Unasked(q) => Unasked(q)'
        BY <1>2 DEF Unasked
      <4> QED BY <4>1, <3>1, <3>3, <2>1, <2>3, Untouched
    <3> QED BY <3>2, <3>3
  <2> QED BY <2>6, <2>7 DEF IndInv, Good
<1> QED BY <1>3, <1>4

\* The file that the first job leaves.
LEMMA FileLeft ==
  ASSUME TypeOK, jobs # <<>>,
         discovered' = [discovered EXCEPT ![Head(jobs).project] = Head(jobs).time]
  PROVE  /\ discovered' \in [Projects -> Times \cup {None}]
         /\ \A q \in Projects : q # Head(jobs).project => discovered'[q] = discovered[q]
<1>1. Head(jobs) \in JobRecords
  BY Types, TailFacts
<1> QED BY <1>1, Types DEF JobRecords

LEMMA JobEndsInv == ASSUME IndInv, JobEnds PROVE IndInv'
<1>0. TypeOK
  BY DEF IndInv, TurnsAgree
<1>1. /\ jobs # <<>> /\ Answer("check", "discovering") /\ faults' \in 0..MaxFaults
      /\ discovered' = [discovered EXCEPT ![Head(jobs).project] = Head(jobs).time]
      /\ UNCHANGED <<runs, recorded, enrichmentCache, polls, disturbed, chain, reorgs>>
  BY <1>0, Types DEF JobEnds, bounds
<1> QED BY <1>0, <1>1, FileLeft, AnswerInv

LEMMA JobFailsInv == ASSUME IndInv, JobFails PROVE IndInv'
<1>0. TypeOK
  BY DEF IndInv, TurnsAgree
<1>1. /\ jobs # <<>> /\ faults' \in 0..MaxFaults
      /\ Answer("check", "discovering") \/ Answer("done", "error")
      /\ \/ discovered' = [discovered EXCEPT ![Head(jobs).project] = Head(jobs).time]
         \/ UNCHANGED discovered
      /\ UNCHANGED <<runs, recorded, enrichmentCache, polls, disturbed, chain, reorgs>>
  BY <1>0, Types, BoundAssumption DEF JobFails
<1>2. /\ discovered' \in [Projects -> Times \cup {None}]
      /\ \A q \in Projects : q # Head(jobs).project => discovered'[q] = discovered[q]
  BY <1>0, <1>1, Types, FileLeft
<1> QED BY <1>1, <1>2, AnswerInv

\* A restart forgets all but the disk and the runner's jobs, which become nobody's.
LEMMA RestartInv == ASSUME IndInv, Restart PROVE IndInv'
<1>0. TypeOK
  BY DEF IndInv, TurnsAgree
<1>1. /\ faults' \in 0..MaxFaults
      /\ runs' = [p \in Projects |-> None] /\ states' = [id \in Ids |-> Gone] /\ turns' = <<>>
      /\ jobs' = [i \in DOMAIN jobs |-> [jobs[i] EXCEPT !.for = None]]
      /\ enrichmentCache' = [p \in Projects |-> None]
      /\ polls' = [t \in Tabs |-> Idle(ProjectOf(t))]
      /\ disturbed' = {} /\ UNCHANGED <<discovered, recorded, chain, reorgs>>
  BY <1>0, Types, BoundAssumption DEF Restart, disk
<1>2. /\ \A id \in Ids : /\ states'[id].at = "done" /\ states'[id].status = "error"
                         /\ states'[id].project = None
      /\ states' \in [Ids -> StateRecords]
  BY <1>1 DEF Gone, StateRecords
<1>3. \A i \in DOMAIN jobs : jobs'[i] \in JobRecords /\ jobs'[i].for = None
  BY <1>0, <1>1, Types DEF JobRecords
<1>4. jobs' \in Seq(JobRecords) /\ DOMAIN jobs' = DOMAIN jobs
  <2>1. jobs' = [i \in DOMAIN jobs |-> jobs'[i]]
    BY <1>1
  <2>2. jobs \in Seq(JobRecords)
    BY <1>0, Types
  <2> QED BY <2>1, <2>2, <1>3, MapFacts
<1>5. /\ \A t \in Tabs : polls'[t].at = "idle" /\ polls'[t].told = None
      /\ polls' \in [Tabs -> PollRecords]
  <2>1. \A t \in Tabs : Idle(ProjectOf(t)) \in PollRecords
    BY <1>0, Types DEF Idle, PollRecords, Files
  <2> QED BY <2>1, <1>1 DEF Idle
<1>6. TypeOK'
  <2>1. turns' \in Seq(Ids) /\ IsInjective(turns')
    BY <1>1 DEF IsInjective
  <2>2. /\ runs' \in [Projects -> Ids \cup {None}]
        /\ enrichmentCache' \in [Projects -> Times \cup {None}]
    BY <1>1
  <2> QED BY <2>1, <2>2, <1>0, <1>1, <1>2, <1>4, <1>5
        DEF TypeOK, StateRecords, JobRecords, PollRecords
<1>7. TurnsAgree'
  <2>1. \A id \in Ids : id \notin Range(turns')
    BY <1>1 DEF Range
  <2> QED BY <2>1, <1>2, <1>3, <1>4, <1>6, NoneFacts DEF TurnsAgree
<1>8. StatesFit'
  BY <1>1, <1>2, <1>3, <1>4, <1>5 DEF StatesFit
<1>9. ASSUME NEW q \in Projects PROVE Good(q)'
  BY <1>1, <1>2, <1>5, NoneFacts
     DEF Good, OneRun, LastJob, SeenStands, NamesStand, Missed, Ready
<1>10. ToldTogether'
  BY <1>5 DEF ToldTogether
<1> QED BY <1>7, <1>8, <1>9, <1>10 DEF IndInv, Good

LEMMA SameInv ==
  ASSUME IndInv, chain' \in [Projects -> Snaps], reorgs' \in 0..MaxReorgs,
         UNCHANGED <<runs, states, turns, jobs, disk, enrichmentCache, polls, disturbed, faults>>
  PROVE  IndInv'
<1>0. TypeOK /\ TurnsAgree /\ StatesFit /\ ToldTogether
  BY DEF IndInv, TurnsAgree
<1>1. TypeOK'
  BY <1>0 DEF TypeOK, disk
<1>2. TurnsAgree' /\ StatesFit' /\ ToldTogether'
  BY <1>0, <1>1 DEF TurnsAgree, StatesFit, ToldTogether, ProjectOf
<1>3. ASSUME NEW q \in Projects \ disturbed PROVE Good(q)'
  <2>1. OneRun(q) /\ LastJob(q) /\ SeenStands(q) /\ NamesStand(q)
    BY <1>3 DEF IndInv
  <2>2. OneRun(q)' /\ LastJob(q)' /\ SeenStands(q)'
    BY <2>1 DEF OneRun, LastJob, SeenStands, Missed, Unasked, Matches, ProjectOf, disk
  <2>3. NamesStand(q)'
    BY <2>1 DEF NamesStand, Ready, OnDisk, Unasked, ProjectOf, disk
  <2> QED BY <2>2, <2>3 DEF Good
<1> QED BY <1>2, <1>3 DEF IndInv, Good

LEMMA ReorgInv == ASSUME IndInv, Reorg PROVE IndInv'
<1>0. TypeOK
  BY DEF IndInv, TurnsAgree
<1>1. chain' \in [Projects -> Snaps] /\ reorgs' \in 0..MaxReorgs
  BY <1>0, Types, BoundAssumption DEF Reorg
<1> QED BY <1>1, SameInv DEF Reorg

-----------------------------------------------------------------------------
LEMMA NextInv == IndInv /\ [Next]_vars => IndInv'
<1> SUFFICES ASSUME IndInv, [Next]_vars PROVE IndInv'
  OBVIOUS
<1>0. TypeOK
  BY DEF IndInv, TurnsAgree
<1>1. ASSUME NEW t \in Tabs, PollStep(t) PROVE IndInv'
  BY <1>1, PollInv, ResolveInv, LookInv, DecideInv, EnrichInv DEF PollStep
<1>2. ASSUME NEW id \in Ids, RunStep(id) \/ Fails(id) \/ Abort(id) PROVE IndInv'
  BY <1>2, TracesInv, PostInv, CheckInv, RecordInv, FailsInv, AbortInv DEF RunStep
<1>3. CASE Runner \/ JobFails \/ Restart \/ Reorg
  BY <1>3, JobWritesInv, JobEndsInv, JobFailsInv, RestartInv, ReorgInv DEF Runner
<1>4. CASE UNCHANGED vars
  BY <1>0, <1>4, Types, SameInv DEF vars
<1> QED BY <1>1, <1>2, <1>3, <1>4 DEF Next

\* The inductive invariant of workspace.ts and the runner, for any tabs, projects,
\* snapshots and faults.
THEOREM Inductive == Spec => []IndInv
BY InitInv, NextInv, PTL DEF Spec

\* The two queues agree over aborts, failures and restarts of either process: each
\* run that waits is in turns, the first one alone has been posted, with one job.
THEOREM QueuesAgree == Spec => []TurnsAgree
<1>1. IndInv => TurnsAgree
  BY DEF IndInv
<1> QED BY <1>1, Inductive, PTL

\* A project that is not disturbed is ready only while its files are of the
\* snapshot that is named.
THEOREM ReadyStaysOnDisk == Spec => []ReadyIsOnDisk
<1>1. IndInv => ReadyIsOnDisk
  BY DEF IndInv, ReadyIsOnDisk, NamesStand
<1> QED BY <1>1, Inductive, PTL

\* The names that a tab is told are those of the snapshot that it is told.
THEOREM NamesOfTheSnapshot == Spec => []ToldTogether
<1>1. IndInv => ToldTogether
  BY DEF IndInv
<1> QED BY <1>1, Inductive, PTL

\* A run of a project that is not disturbed finds, when its job has been answered,
\* nothing of the project left in the runner's queue, and the file that it has
\* checked stays of its snapshot until it is recorded.
THEOREM NobodyWritesOver ==
  Spec => [](\A p \in Projects \ disturbed : LastJob(p))
<1>1. IndInv => \A p \in Projects \ disturbed : LastJob(p)
  BY DEF IndInv
<1> QED BY <1>1, Inductive, PTL
=============================================================================
