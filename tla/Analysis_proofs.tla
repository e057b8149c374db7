------------------------------ MODULE Analysis_proofs ------------------------------
(***************************************************************************)
(* Proofs about ContractAnalysis, about Decompilation (as Evidence), and     *)
(* about Analysis as their composition, for any conversations, candidates,   *)
(* evidence, worker slots and faults.                                      *)
(*                                                                         *)
(* A call asks the map without an await before it enters its promise, so the *)
(* promise in the map and the call that runs the child are one; what is read *)
(* or saved stays stored, so what is told is stored.  Each component sees in *)
(* a step of Analysis a step of its own, or none.                          *)
(***************************************************************************)
EXTENDS Analysis, TLAPS

\* The first state satisfies the inductive invariant.
LEMMA AnalysisInitInv == AnalysisInit => AnalysisIndInv
  BY CallAssumption, FaultAssumption
  DEF AnalysisInit, AnalysisIndInv, AnalysisTypeOK, OneChildPerBundle, HasEvidence,
      ToldIsStored, SeenIsStored, OnePermit, Places, Answered, Findings, Owning, InFlight

\* A call that is not, and does not become, the owner of a promise or one that
\* shares it moves on; bundles stay, and it is told a stored one if any.
LEMMA MoveInv ==
  ASSUME AnalysisIndInv, NEW c \in Calls, NEW to \in Places \ (Owning \cup {"sharing"}),
         pc[c] \notin Owning \cup {"sharing"},
         pc' = [pc EXCEPT ![c] = to],
         pc[c] \in {"idle", "resolving"} \cup Answered \/ ref' = ref,
         ref' \in [Calls -> Refs \cup {None}],
         \A d \in Calls \ {c} : ref'[d] = ref[d] /\ found'[d] = found[d] /\ told'[d] = told[d],
         to \in {"idle", "resolving"} \cup Answered \/ ref'[c] \in Refs,
         found' \in [Calls -> Findings],
         to = "read" /\ found'[c] # "nothing" => ref'[c] \in stored[CodeOf[c]],
         to \in {"listing", "choosing"} => ref'[c] \in stored[CodeOf[c]],
         told' \in [Calls -> Refs \cup {None}],
         told'[c] # None \/ to = "ok" => told'[c] \in stored[CodeOf[c]],
         listed' \in [Codes -> SUBSET Calls],
         faults' \in 0..MaxFaults,
         UNCHANGED <<sharing, inFlight, stored, newest, left>>
  PROVE  AnalysisIndInv'
<1> USE CallAssumption DEF AnalysisIndInv
<1> DEFINE others == \A d \in Calls \ {c} : pc'[d] = pc[d] /\ ref'[d] = ref[d]
<1>1. AnalysisTypeOK' /\ pc'[c] = to /\ others
  BY DEF AnalysisTypeOK
<1>2. \A d \in Calls : pc[d] \in Owning <=> pc'[d] \in Owning
  BY <1>1
<1>3. \A d \in Calls : pc[d] = "sharing" <=> pc'[d] = "sharing"
  BY <1>1
<1>4. OneChildPerBundle'
  <2>1. \A d \in Calls : pc[d] \in Owning \cup {"sharing"} => d # c /\ ref'[d] = ref[d]
    BY <1>1
  <2> HIDE DEF others
  <2>2. \A d \in Calls : pc'[d] \in Owning => inFlight'[CodeOf[d]][ref'[d]] = d
    BY <1>2, <2>1 DEF OneChildPerBundle, InFlight
  <2>3. \A h \in Codes, a \in Refs : inFlight'[h][a] # None =>
          LET d == inFlight'[h][a]
          IN  pc'[d] \in Owning /\ CodeOf[d] = h /\ ref'[d] = a
    BY <1>2, <2>1 DEF OneChildPerBundle, AnalysisTypeOK
  <2>4. \A d \in Calls : pc'[d] = "sharing" =>
          /\ sharing'[d] # None /\ pc'[sharing'[d]] \in Owning
          /\ CodeOf[sharing'[d]] = CodeOf[d] /\ ref'[sharing'[d]] = ref'[d]
    BY <1>2, <1>3, <2>1 DEF OneChildPerBundle, AnalysisTypeOK
  <2> QED BY <2>2, <2>3, <2>4 DEF OneChildPerBundle, InFlight
<1>5. HasEvidence'
  BY <1>1 DEF HasEvidence, AnalysisTypeOK
<1>6. ToldIsStored'
  BY <1>1 DEF ToldIsStored
<1>7. SeenIsStored'
  BY <1>1 DEF SeenIsStored, Owning
<1>8. OnePermit'
  BY <1>1 DEF OnePermit, Owning
<1> QED BY <1>1, <1>4, <1>5, <1>6, <1>7, <1>8

\* The evidence and the durable cache.
LEMMA ReadingInv ==
  ASSUME AnalysisIndInv, NEW c \in Calls,
         \/ Ask(c) \/ (\E a \in Refs : EvidenceComes(c, a)) \/ EvidenceFails(c)
         \/ EvidenceTimeout(c) \/ Read(c) \/ Cached(c) \/ Unlisted(c) \/ List(c)
         \/ Choose(c) \/ QueryFails(c) \/ NestedRefused(c)
  PROVE  AnalysisIndInv'
<1> USE CallAssumption, FaultAssumption DEF Places, Answered, Owning, database, Moves
<1>1. AnalysisTypeOK /\ SeenIsStored /\ HasEvidence /\ ToldIsStored
  BY DEF AnalysisIndInv
<1>2. CASE Ask(c)
  <2>1. /\ pc[c] \notin Owning \cup {"sharing"} /\ pc[c] \in {"idle"} \cup Answered
        /\ pc' = [pc EXCEPT ![c] = "resolving"]
        /\ ref' = [ref EXCEPT ![c] = None] /\ told' = [told EXCEPT ![c] = None]
        /\ UNCHANGED <<found, sharing, inFlight, stored, newest, listed, left, faults>>
    BY <1>2 DEF Ask
  <2>2. ref' \in [Calls -> Refs \cup {None}] /\ told' \in [Calls -> Refs \cup {None}]
    BY <1>1, <2>1 DEF AnalysisTypeOK
  <2>3. /\ told'[c] = None
        /\ \A d \in Calls \ {c} : ref'[d] = ref[d] /\ told'[d] = told[d]
    BY <1>1, <2>1 DEF AnalysisTypeOK
  <2> QED BY <1>1, <2>1, <2>2, <2>3, MoveInv DEF AnalysisTypeOK
<1>3. CASE \E a \in Refs : EvidenceComes(c, a)
  <2>1. PICK a \in Refs : EvidenceComes(c, a)
    BY <1>3
  <2>2. /\ pc[c] = "resolving" /\ pc' = [pc EXCEPT ![c] = "reading"]
        /\ ref' = [ref EXCEPT ![c] = a]
        /\ UNCHANGED <<found, sharing, told, inFlight, stored, newest, listed, left, faults>>
    BY <2>1 DEF EvidenceComes
  <2>3. /\ ref' \in [Calls -> Refs \cup {None}] /\ ref'[c] \in Refs
        /\ \A d \in Calls \ {c} : ref'[d] = ref[d]
    BY <1>1, <2>2 DEF AnalysisTypeOK
  <2> QED BY <1>1, <2>2, <2>3, MoveInv DEF AnalysisTypeOK, ToldIsStored
<1>4. CASE EvidenceFails(c) \/ EvidenceTimeout(c)
  <2>1. /\ pc[c] = "resolving" /\ pc' = [pc EXCEPT ![c] = "error"]
        /\ UNCHANGED <<ref, found, sharing, told, inFlight, stored, newest, listed, left, faults>>
    BY <1>4 DEF EvidenceFails, EvidenceTimeout
  <2> QED BY <1>1, <2>1, MoveInv DEF AnalysisTypeOK, ToldIsStored
<1>5. CASE Read(c)
  BY <1>1, <1>5, MoveInv DEF Read, AnalysisTypeOK, ToldIsStored, Findings, HasEvidence
<1>6. CASE Cached(c)
  BY <1>1, <1>6, MoveInv
  DEF Cached, Reads, AnalysisTypeOK, SeenIsStored, HasEvidence, Findings
<1>7. CASE Unlisted(c)
  BY <1>1, <1>7, MoveInv
  DEF Unlisted, Reads, AnalysisTypeOK, SeenIsStored, HasEvidence, ToldIsStored, Findings
<1>8. CASE List(c)
  BY <1>1, <1>8, MoveInv DEF List, AnalysisTypeOK, SeenIsStored, HasEvidence, ToldIsStored
<1>9. CASE Choose(c)
  <2>1. /\ pc[c] = "choosing" /\ pc' = [pc EXCEPT ![c] = "ok"]
        /\ told' = [told EXCEPT ![c] = newest[CodeOf[c]]]
        /\ UNCHANGED <<ref, found, sharing, inFlight, stored, newest, listed, left, faults>>
    BY <1>9 DEF Choose
  <2>2. newest[CodeOf[c]] \in stored[CodeOf[c]] /\ ref[c] \in Refs
    BY <1>1, <2>1 DEF SeenIsStored, HasEvidence, AnalysisTypeOK
  <2>3. /\ told' \in [Calls -> Refs \cup {None}] /\ told'[c] = newest[CodeOf[c]]
        /\ \A d \in Calls \ {c} : told'[d] = told[d]
    BY <1>1, <2>1 DEF AnalysisTypeOK
  <2> QED BY <1>1, <2>1, <2>2, <2>3, MoveInv DEF AnalysisTypeOK
<1>10. CASE QueryFails(c)
  <2>1. /\ pc[c] \in {"reading", "listing", "choosing"} /\ pc' = [pc EXCEPT ![c] = "error"]
        /\ faults' = faults + 1 /\ faults < MaxFaults
        /\ UNCHANGED <<ref, found, sharing, told, inFlight, stored, newest, listed, left>>
    BY <1>10 DEF QueryFails, Fault
  <2>2. faults' \in 0..MaxFaults
    BY <1>1, <2>1 DEF AnalysisTypeOK
  <2> QED BY <1>1, <2>1, <2>2, MoveInv DEF AnalysisTypeOK, ToldIsStored
<1>11. CASE NestedRefused(c)
  BY <1>1, <1>11, MoveInv DEF NestedRefused, Reads, AnalysisTypeOK, ToldIsStored, Findings
<1> QED BY <1>2, <1>3, <1>4, <1>5, <1>6, <1>7, <1>8, <1>9, <1>10, <1>11

\* A call awaits the promise of a child.
LEMMA ShareInv == ASSUME AnalysisIndInv, NEW c \in Calls, Share(c) PROVE AnalysisIndInv'
<1> USE CallAssumption DEF AnalysisIndInv
<1> DEFINE owner == inFlight[CodeOf[c]][ref[c]]
<1>1. /\ pc[c] = "read" /\ pc' = [pc EXCEPT ![c] = "sharing"]
      /\ found' = [found EXCEPT ![c] = "nothing"]
      /\ sharing' = [sharing EXCEPT ![c] = owner] /\ owner # None
      /\ UNCHANGED <<ref, told, inFlight, stored, newest, listed, left, faults>>
  BY DEF Share, Reads, Moves, InFlight, database
<1>2. ref[c] \in Refs /\ CodeOf[c] \in Codes
  BY <1>1 DEF HasEvidence, AnalysisTypeOK, Places, Answered
<1>3. /\ owner \in Calls \ {c} /\ pc[owner] \in Owning
      /\ CodeOf[owner] = CodeOf[c] /\ ref[owner] = ref[c]
  BY <1>1, <1>2 DEF OneChildPerBundle, AnalysisTypeOK, Owning
<1>4. AnalysisTypeOK'
  BY <1>1, <1>3 DEF AnalysisTypeOK, Places, Findings
<1>5. \A d \in Calls : pc'[d] = IF d = c THEN "sharing" ELSE pc[d]
  BY <1>1 DEF AnalysisTypeOK
<1>6. \A d \in Calls : pc[d] \in Owning <=> pc'[d] \in Owning
  BY <1>1, <1>5 DEF Owning
<1>7. OneChildPerBundle'
  <2>1. \A d \in Calls : sharing'[d] = IF d = c THEN owner ELSE sharing[d]
    BY <1>1 DEF AnalysisTypeOK
  <2>2. \A d \in Calls : pc'[d] \in Owning => inFlight'[CodeOf[d]][ref'[d]] = d
    BY <1>1, <1>6 DEF OneChildPerBundle, InFlight
  <2>3. \A h \in Codes, a \in Refs : inFlight'[h][a] # None =>
          LET d == inFlight'[h][a]
          IN  pc'[d] \in Owning /\ CodeOf[d] = h /\ ref'[d] = a
    BY <1>1, <1>6 DEF OneChildPerBundle, AnalysisTypeOK
  <2>4. \A d \in Calls : pc'[d] = "sharing" =>
          /\ sharing'[d] # None /\ pc'[sharing'[d]] \in Owning
          /\ CodeOf[sharing'[d]] = CodeOf[d] /\ ref'[sharing'[d]] = ref'[d]
    BY <1>1, <1>3, <1>5, <1>6, <2>1 DEF OneChildPerBundle, AnalysisTypeOK
  <2> QED BY <2>2, <2>3, <2>4 DEF OneChildPerBundle, InFlight
<1>8. HasEvidence' /\ ToldIsStored'
  BY <1>1, <1>2, <1>5 DEF HasEvidence, ToldIsStored
<1>9. SeenIsStored' /\ OnePermit'
  BY <1>1, <1>5 DEF SeenIsStored, OnePermit, AnalysisTypeOK
<1> QED BY <1>4, <1>7, <1>8, <1>9

\* A call enters its promise and runs the child.
LEMMA OwnInv == ASSUME AnalysisIndInv, NEW c \in Calls, Own(c) PROVE AnalysisIndInv'
<1> USE CallAssumption DEF AnalysisIndInv
<1>1. /\ pc[c] = "read" /\ pc' = [pc EXCEPT ![c] = "child"]
      /\ found' = [found EXCEPT ![c] = "nothing"]
      /\ inFlight[CodeOf[c]][ref[c]] = None
      /\ inFlight' = [inFlight EXCEPT ![CodeOf[c]][ref[c]] = c]
      /\ UNCHANGED <<ref, sharing, told, stored, newest, listed, left, faults>>
  BY DEF Own, Reads, Moves, InFlight, database
<1>2. ref[c] \in Refs /\ CodeOf[c] \in Codes
  BY <1>1 DEF HasEvidence, AnalysisTypeOK, Places, Answered
<1>3. \A d \in Calls : pc'[d] = IF d = c THEN "child" ELSE pc[d]
  BY <1>1 DEF AnalysisTypeOK
<1>4. \A h \in Codes, a \in Refs :
        inFlight'[h][a] = IF h = CodeOf[c] /\ a = ref[c] THEN c ELSE inFlight[h][a]
  BY <1>1, <1>2 DEF AnalysisTypeOK
<1>5. AnalysisTypeOK'
  BY <1>1, <1>2 DEF AnalysisTypeOK, Places, Findings
<1>6. OneChildPerBundle'
  <2>1. \A d \in Calls : pc[d] \in Owning => d # c /\ inFlight[CodeOf[d]][ref[d]] = d
    BY <1>1 DEF Owning, OneChildPerBundle, InFlight
  <2>2. \A d \in Calls : pc[d] \in Owning => ref[d] \in Refs
    BY DEF HasEvidence, Owning, Places, Answered
  <2>3. \A d \in Calls : pc'[d] \in Owning => inFlight'[CodeOf[d]][ref'[d]] = d
    BY <1>1, <1>2, <1>3, <1>4, <2>1, <2>2 DEF AnalysisTypeOK
  <2>4. \A h \in Codes, a \in Refs : inFlight'[h][a] # None =>
          LET d == inFlight'[h][a]
          IN  pc'[d] \in Owning /\ CodeOf[d] = h /\ ref'[d] = a
    BY <1>1, <1>3, <1>4 DEF OneChildPerBundle, AnalysisTypeOK, Owning
  <2>5. \A d \in Calls : pc'[d] = "sharing" =>
          /\ sharing'[d] # None /\ pc'[sharing'[d]] \in Owning
          /\ CodeOf[sharing'[d]] = CodeOf[d] /\ ref'[sharing'[d]] = ref'[d]
    BY <1>1, <1>3 DEF OneChildPerBundle, AnalysisTypeOK, Owning
  <2> QED BY <2>3, <2>4, <2>5 DEF OneChildPerBundle, InFlight
<1>7. HasEvidence' /\ ToldIsStored'
  BY <1>1, <1>2, <1>3 DEF HasEvidence, ToldIsStored
<1>8. SeenIsStored'
  BY <1>1, <1>3 DEF SeenIsStored, AnalysisTypeOK
<1>9. OnePermit'
  <2>1. \A d \in Calls : pc[d] = "child" => ParentOf[d] # ParentOf[c]
    BY DEF Own, PermitLent
  <2> QED BY <1>3, <2>1 DEF OnePermit
<1> QED BY <1>5, <1>6, <1>7, <1>8, <1>9

\* A call that owns a promise goes on.
LEMMA OwnerInv ==
  ASSUME AnalysisIndInv, NEW c \in Calls, ChildReports(c) \/ Save(c) PROVE AnalysisIndInv'
<1> USE CallAssumption DEF AnalysisIndInv
<1> DEFINE to == IF ChildReports(c) THEN "saving" ELSE "saved"
<1>1. /\ pc[c] \in {"child", "saving"} /\ pc' = [pc EXCEPT ![c] = to]
      /\ UNCHANGED <<ref, found, sharing, told, inFlight, left, faults>>
  BY DEF ChildReports, Save, Moves
<1>2. ref[c] \in Refs /\ CodeOf[c] \in Codes
  BY <1>1 DEF HasEvidence, AnalysisTypeOK, Places, Answered
<1>3. \A h \in Codes : stored[h] \subseteq stored'[h]
  BY <1>2 DEF ChildReports, Save, database, AnalysisTypeOK
<1>4. /\ stored' \in [Codes -> SUBSET Refs] /\ newest' \in [Codes -> Refs \cup {None}]
      /\ listed' \in [Codes -> SUBSET Calls]
      /\ \A h \in Codes : stored'[h] # {} => newest'[h] \in stored'[h]
      /\ to = "saved" => ref[c] \in stored'[CodeOf[c]]
  <2>1. CASE ChildReports(c)
    BY <2>1 DEF ChildReports, database, AnalysisTypeOK, SeenIsStored
  <2>2. CASE ~ChildReports(c)
    <3>1. /\ stored' = [stored EXCEPT ![CodeOf[c]] = @ \cup {ref[c]}]
          /\ newest' = [newest EXCEPT ![CodeOf[c]] = ref[c]]
          /\ listed' = [listed EXCEPT ![CodeOf[c]] = @ \cup {c}]
      BY <2>2 DEF Save
    <3>2. \A h \in Codes :
            /\ stored'[h] = IF h = CodeOf[c] THEN stored[h] \cup {ref[c]} ELSE stored[h]
            /\ newest'[h] = IF h = CodeOf[c] THEN ref[c] ELSE newest[h]
      BY <1>2, <3>1 DEF AnalysisTypeOK
    <3> QED BY <1>2, <3>1, <3>2 DEF AnalysisTypeOK, SeenIsStored
  <2> QED BY <2>1, <2>2
<1>5. \A d \in Calls : pc'[d] = IF d = c THEN to ELSE pc[d]
  BY <1>1 DEF AnalysisTypeOK
<1>6. to \in Owning \ {"child"} /\ pc[c] \in Owning
  BY <1>1 DEF Owning
<1> HIDE DEF to
<1>7. AnalysisTypeOK'
  BY <1>1, <1>4, <1>6 DEF AnalysisTypeOK, Places, Owning
<1>8. \A d \in Calls : pc[d] \in Owning <=> pc'[d] \in Owning
  BY <1>5, <1>6
<1>9. OneChildPerBundle'
  BY <1>1, <1>5, <1>6, <1>8 DEF OneChildPerBundle, InFlight, AnalysisTypeOK, Owning
<1>10. HasEvidence' /\ ToldIsStored'
  BY <1>1, <1>2, <1>3, <1>5, <1>6 DEF HasEvidence, ToldIsStored, Owning
<1>11. SeenIsStored'
  BY <1>1, <1>3, <1>4, <1>5, <1>6 DEF SeenIsStored, Owning
<1>12. OnePermit'
  BY <1>5, <1>6 DEF OnePermit
<1> QED BY <1>7, <1>9, <1>10, <1>11, <1>12

\* A promise settles: the map and those that share it forget it together.
LEMMA SettleInv ==
  ASSUME AnalysisIndInv, NEW c \in Calls, pc[c] \in Owning,
         NEW place \in Answered, NEW bundle \in Refs \cup {None},
         bundle # None \/ place = "ok" => bundle \in stored[CodeOf[c]],
         Settle(c, place, bundle), faults' \in 0..MaxFaults,
         UNCHANGED <<ref, found, stored, newest, listed, left>>
  PROVE  AnalysisIndInv'
<1> USE CallAssumption DEF AnalysisIndInv
<1>1. ref[c] \in Refs /\ CodeOf[c] \in Codes
  BY DEF HasEvidence, AnalysisTypeOK, Places, Answered, Owning
<1>2. \A d \in Sharers(c) : CodeOf[d] = CodeOf[c]
  BY DEF Sharers, OneChildPerBundle
<1> DEFINE S == Sharers(c)
<1>9. \A d \in Calls : d \in S <=> d = c \/ (pc[d] = "sharing" /\ sharing[d] = c)
  BY DEF Sharers
<1>3. \A d \in Calls : /\ pc'[d] = IF d \in S THEN place ELSE pc[d]
                       /\ told'[d] = IF d \in S THEN bundle ELSE told[d]
                       /\ sharing'[d] = IF d \in S THEN None ELSE sharing[d]
  BY Zenon DEF Settle
<1> HIDE DEF S
<1>4. \A h \in Codes, a \in Refs :
        inFlight'[h][a] = IF h = CodeOf[c] /\ a = ref[c] THEN None ELSE inFlight[h][a]
  BY <1>1 DEF Settle, AnalysisTypeOK
<1>5. AnalysisTypeOK'
  <2>1. place \in Places
    BY DEF Places, Answered
  <2>2. /\ pc' \in [Calls -> Places] /\ told' \in [Calls -> Refs \cup {None}]
        /\ sharing' \in [Calls -> Calls \cup {None}]
    BY <2>1 DEF Settle, AnalysisTypeOK
  <2>3. inFlight' \in [Codes -> [Refs -> Calls \cup {None}]]
    BY <1>1 DEF Settle, AnalysisTypeOK
  <2> QED BY <2>2, <2>3 DEF AnalysisTypeOK
<1>6. OneChildPerBundle'
  <2>1. \A d \in Calls : pc'[d] \in Owning => d # c /\ d \notin S /\ pc[d] \in Owning
    BY <1>9, <1>3 DEF Owning, Answered
  <2>2. \A d \in Calls : pc[d] \in Owning =>
          ref[d] \in Refs /\ CodeOf[d] \in Codes /\ inFlight[CodeOf[d]][ref[d]] = d
    BY DEF HasEvidence, Owning, Places, Answered, OneChildPerBundle, InFlight
  <2>3. \A d \in Calls : pc'[d] \in Owning => inFlight'[CodeOf[d]][ref'[d]] = d
    BY <1>4, <2>1, <2>2
  <2>4. \A d \in Calls : pc[d] \in Owning /\ d # c => pc'[d] = pc[d]
    BY <1>9, <1>3 DEF Owning
  <2>5. \A h \in Codes, a \in Refs : inFlight'[h][a] # None =>
          LET d == inFlight'[h][a]
          IN  pc'[d] \in Owning /\ CodeOf[d] = h /\ ref'[d] = a
    <3>1. \A h \in Codes, a \in Refs : inFlight'[h][a] # None =>
            inFlight'[h][a] = inFlight[h][a] /\ inFlight[h][a] \in Calls \ {c}
      BY <1>4 DEF OneChildPerBundle, AnalysisTypeOK
    <3> QED BY <2>4, <3>1 DEF OneChildPerBundle
  <2>6. \A d \in Calls : pc'[d] = "sharing" =>
          pc[d] = "sharing" /\ sharing'[d] = sharing[d] /\ sharing[d] # c
    BY <1>9, <1>3 DEF Answered
  <2>7. \A d \in Calls : pc'[d] = "sharing" =>
          /\ sharing'[d] # None /\ pc'[sharing'[d]] \in Owning
          /\ CodeOf[sharing'[d]] = CodeOf[d] /\ ref'[sharing'[d]] = ref'[d]
    BY <2>4, <2>6 DEF OneChildPerBundle, AnalysisTypeOK
  <2> QED BY <2>3, <2>5, <2>7 DEF OneChildPerBundle, InFlight
<1>7. HasEvidence' /\ ToldIsStored'
  BY <1>2, <1>3 DEF S, HasEvidence, ToldIsStored, Answered
<1>8. SeenIsStored' /\ OnePermit'
  BY <1>3 DEF SeenIsStored, OnePermit, Answered
<1> QED BY <1>5, <1>6, <1>7, <1>8

\* The child's promise ends, well or not.
LEMMA SettlesInv ==
  ASSUME AnalysisIndInv, NEW c \in Calls, Finish(c) \/ ChildFails(c) \/ SaveFails(c)
  PROVE  AnalysisIndInv'
<1>1. CASE Finish(c)
  <2>1. ref[c] \in stored[CodeOf[c]] /\ ref[c] \in Refs \cup {None}
    BY <1>1 DEF Finish, AnalysisIndInv, SeenIsStored, AnalysisTypeOK
  <2> QED BY <1>1, <2>1, SettleInv
          DEF Finish, database, Owning, Answered, AnalysisIndInv, AnalysisTypeOK
<1>2. CASE ChildFails(c)
  BY <1>2, SettleInv DEF ChildFails, database, Owning, Answered, AnalysisIndInv, AnalysisTypeOK
<1>3. CASE SaveFails(c)
  <2>1. faults' \in 0..MaxFaults
    BY <1>3, FaultAssumption DEF SaveFails, Fault, AnalysisIndInv, AnalysisTypeOK
  <2> QED BY <1>3, <2>1, SettleInv DEF SaveFails, database, Owning, Answered
<1> QED BY <1>1, <1>2, <1>3

\* Clients leave, conversations go on, agent-api restarts.
LEMMA ProcessInv ==
  ASSUME AnalysisIndInv, (\E p \in Parents : Leave(p) \/ Returns(p)) \/ AgentRestarts
  PROVE  AnalysisIndInv'
<1> USE CallAssumption, FaultAssumption DEF AnalysisIndInv
<1>1. CASE \E p \in Parents : Leave(p) \/ Returns(p)
  <2>1. /\ left' \subseteq Parents /\ faults' \in 0..MaxFaults
        /\ UNCHANGED <<callVars, inFlight, database>>
    BY <1>1 DEF Leave, Returns, Fault, AnalysisTypeOK
  <2> QED BY <2>1
          DEF callVars, database, AnalysisTypeOK, OneChildPerBundle, InFlight, HasEvidence,
              ToldIsStored, SeenIsStored, OnePermit
<1>2. CASE AgentRestarts
  BY <1>2
  DEF AgentRestarts, Fault, database, AnalysisTypeOK, OneChildPerBundle, HasEvidence,
      ToldIsStored, SeenIsStored, OnePermit, Places, Answered, Findings, Owning, InFlight
<1> QED BY <1>1, <1>2

\* Every step keeps the inductive invariant.
LEMMA AnalysisNextInv == AnalysisIndInv /\ [AnalysisNext]_analysis => AnalysisIndInv'
<1> SUFFICES ASSUME AnalysisIndInv, [AnalysisNext]_analysis PROVE AnalysisIndInv'
  OBVIOUS
<1>1. CASE UNCHANGED analysis
  BY <1>1
  DEF analysis, callVars, database, AnalysisIndInv, AnalysisTypeOK, OneChildPerBundle,
      InFlight, HasEvidence, ToldIsStored, SeenIsStored, OnePermit
<1>2. CASE AnalysisNext
  BY <1>2, ReadingInv, ShareInv, OwnInv, OwnerInv, SettlesInv, ProcessInv
  DEF AnalysisNext, Inside, Proceed, ChildEnds
<1> QED BY <1>1, <1>2

\* ONE CHILD.  The child of a bundle is the one in the map, and what a call was
\* told, read or saved is stored, with any evidence at all.
THEOREM OneChild == AnalysisSpec => []AnalysisIndInv
  BY AnalysisInitInv, AnalysisNextInv, PTL DEF AnalysisSpec

-----------------------------------------------------------------------------
(* The gateway and the service behind it, Decompilation, with the calls as   *)
(* its requests.  The in-flight map lets one promise per codehash call the   *)
(* service, and it calls only for an artifact that is not stored; so when    *)
(* its outcome is a failure there is no success for it to hide.            *)

\* The assumptions of Decompilation hold of the calls.
LEMMA CallsAreRequests == Evidence!Assumptions
  BY CallAssumption, SlotAssumption DEF Evidence!Assumptions

\* The first state satisfies the inductive invariant.
LEMMA EvidenceInitInv == ASSUME Evidence!Init PROVE Evidence!IndInv
  BY CallsAreRequests DEF Evidence!Assumptions, Evidence!Init, Evidence!IndInv, Evidence!TypeOK,
       Evidence!OneCall, Evidence!AsksForMissing, Evidence!WaitsInMap,
      Evidence!Answers, Evidence!Flights, Evidence!Artifacts, Evidence!Outcomes

\* A request shares a promise or makes one.
LEMMA EvidenceResolveInv ==
  ASSUME Evidence!IndInv, NEW r \in Calls, Evidence!Resolve(r)
  PROVE  Evidence!IndInv'
<1> USE CallsAreRequests DEF Evidence!Assumptions, Evidence!Resolve, Evidence!service,
     Evidence!IndInv
<1>1. Evidence!TypeOK'
  BY DEF Evidence!TypeOK, Evidence!Flights
<1>2. Evidence!OneCall'
  BY DEF Evidence!TypeOK, Evidence!OneCall
<1>3. Evidence!AsksForMissing' /\ Evidence!WaitsInMap'
  BY DEF Evidence!TypeOK, Evidence!AsksForMissing, Evidence!WaitsInMap
<1> QED BY <1>1, <1>2, <1>3

\* An answer is read.
LEMMA EvidenceTakenInv ==
  ASSUME Evidence!IndInv, NEW r \in Calls, Evidence!Taken(r)
  PROVE  Evidence!IndInv'
<1> USE DEF Evidence!Taken, Evidence!service, Evidence!IndInv
<1>1. Evidence!TypeOK' /\ Evidence!OneCall'
  BY DEF Evidence!TypeOK, Evidence!OneCall
<1>2. Evidence!AsksForMissing' /\ Evidence!WaitsInMap'
  BY DEF Evidence!TypeOK, Evidence!AsksForMissing, Evidence!WaitsInMap
<1> QED BY <1>1, <1>2

\* A promise that has no call settles.
LEMMA EvidenceSettleInv ==
  ASSUME Evidence!IndInv, NEW h \in Codes, NEW answer \in Evidence!Answers,
         Evidence!Settle(h, answer),
         flight[h] \in {"looking", "storing"},
         artifact' \in [Codes -> Evidence!Artifacts],
         \A k \in Codes \ {h} : artifact'[k] = artifact[k],
         UNCHANGED Evidence!service, losses' \in 0..MaxLosses
  PROVE  Evidence!IndInv'
<1> USE CallsAreRequests DEF Evidence!Assumptions, Evidence!Settle, Evidence!service,
     Evidence!IndInv
<1>1. Evidence!TypeOK'
  BY DEF Evidence!TypeOK, Evidence!Flights
<1>2. Evidence!OneCall'
  BY DEF Evidence!TypeOK, Evidence!OneCall
<1>3. Evidence!AsksForMissing'
  BY DEF Evidence!TypeOK, Evidence!AsksForMissing
<1>4. Evidence!WaitsInMap'
  <2>1. \A r \in Calls : asked'[r] = "waiting" => asked[r] = "waiting" /\ CodeOf[r] # h
    BY DEF Evidence!Answers
  <2> QED BY <2>1 DEF Evidence!TypeOK, Evidence!WaitsInMap
<1> QED BY <1>1, <1>2, <1>3, <1>4

\* The service gets a codehash and a slot for it.
LEMMA EvidenceAcceptInv ==
  ASSUME Evidence!IndInv, NEW h \in Codes, NEW s \in Slots, Evidence!Accept(h, s)
  PROVE  Evidence!IndInv'
<1> USE CallsAreRequests DEF Evidence!Assumptions, Evidence!Accept, Evidence!CacheIsCurrent,
     Evidence!IndInv
<1>1. Evidence!TypeOK'
  BY DEF Evidence!TypeOK, Evidence!Flights
<1>2. Evidence!OneCall'
  <2>1. \A t \in Slots : heard[t] => process[t] # h /\ process[t] # Free
    BY DEF Evidence!OneCall
  <2>2. \A t \in Slots : heard'[t] => t = s \/ heard[t]
    BY DEF Evidence!TypeOK
  <2>3. \A t \in Slots : process'[t] = IF t = s THEN h ELSE process[t]
    BY DEF Evidence!TypeOK
  <2>4. heard'[s] /\ reply[h] = "none"
    BY DEF Evidence!TypeOK, Evidence!OneCall
  <2> QED BY <2>1, <2>2, <2>3, <2>4 DEF Evidence!TypeOK, Evidence!OneCall
<1>3. Evidence!AsksForMissing' /\ Evidence!WaitsInMap'
  BY DEF Evidence!TypeOK, Evidence!AsksForMissing, Evidence!WaitsInMap, Evidence!Artifacts
<1> QED BY <1>1, <1>2, <1>3

\* The service has no slot for it.
LEMMA EvidenceRefuseInv ==
  ASSUME Evidence!IndInv, NEW h \in Codes, Evidence!Refuse(h)
  PROVE  Evidence!IndInv'
<1> USE CallsAreRequests DEF Evidence!Assumptions, Evidence!Refuse, Evidence!CacheIsCurrent,
     Evidence!service, Evidence!IndInv
<1>1. Evidence!TypeOK'
  BY DEF Evidence!TypeOK, Evidence!Flights, Evidence!Outcomes
<1>2. Evidence!OneCall'
  BY DEF Evidence!TypeOK, Evidence!OneCall
<1>3. Evidence!AsksForMissing' /\ Evidence!WaitsInMap'
  BY DEF Evidence!TypeOK, Evidence!AsksForMissing, Evidence!WaitsInMap, Evidence!Artifacts
<1> QED BY <1>1, <1>2, <1>3

\* The response is complete.
LEMMA EvidenceDeliverInv ==
  ASSUME Evidence!IndInv, NEW h \in Codes, Evidence!Deliver(h)
  PROVE  Evidence!IndInv'
<1> USE CallsAreRequests DEF Evidence!Assumptions, Evidence!Deliver, Evidence!service,
     Evidence!IndInv
<1>1. Evidence!TypeOK'
  BY DEF Evidence!TypeOK, Evidence!Flights, Evidence!Outcomes
<1>2. Evidence!OneCall'
  BY DEF Evidence!TypeOK, Evidence!OneCall
<1>3. Evidence!AsksForMissing' /\ Evidence!WaitsInMap'
  BY DEF Evidence!TypeOK, Evidence!AsksForMissing, Evidence!WaitsInMap
<1> QED BY <1>1, <1>2, <1>3

\* The client hangs up.
LEMMA EvidenceClientTimeoutInv ==
  ASSUME Evidence!IndInv, NEW h \in Codes, Evidence!ClientTimeout(h)
  PROVE  Evidence!IndInv'
<1> USE CallsAreRequests DEF Evidence!Assumptions, Evidence!ClientTimeout, Evidence!IndInv
<1>1. Evidence!TypeOK'
  BY DEF Evidence!TypeOK, Evidence!Flights, Evidence!Outcomes
<1>2. Evidence!OneCall'
  <2>1. \A s \in Slots : heard'[s] <=> heard[s] /\ process[s] # h
    BY Zenon
  <2>2. \A s \in Slots : heard'[s] => process[s] \in Codes \ {h}
    BY <2>1 DEF Evidence!TypeOK, Evidence!OneCall
  <2> QED BY <2>1, <2>2 DEF Evidence!TypeOK, Evidence!OneCall
<1>3. Evidence!AsksForMissing' /\ Evidence!WaitsInMap'
  BY DEF Evidence!TypeOK, Evidence!AsksForMissing, Evidence!WaitsInMap
<1> QED BY <1>1, <1>2, <1>3

\* The evidence is there, is stored, or cannot be.
LEMMA EvidenceSettlesInv ==
  ASSUME Evidence!IndInv, NEW h \in Codes,
         Evidence!Hit(h) \/ Evidence!Store(h) \/ Evidence!StoreFails(h)
  PROVE  Evidence!IndInv'
<1>1. CASE Evidence!Hit(h)
  BY <1>1, EvidenceSettleInv DEF Evidence!Hit, Evidence!IndInv, Evidence!TypeOK,
       Evidence!Answers
<1>2. CASE Evidence!StoreFails(h)
  BY <1>2, CallsAreRequests, EvidenceSettleInv DEF Evidence!Assumptions, Evidence!StoreFails,
       Evidence!Lose, Evidence!IndInv, Evidence!TypeOK, Evidence!Answers
<1>3. CASE Evidence!Store(h)
  <2>1. reply[h] \in Evidence!Answers
    BY <1>3 DEF Evidence!Store, Evidence!IndInv, Evidence!TypeOK, Evidence!OneCall,
         Evidence!Answers, Evidence!Outcomes
  <2>2. /\ artifact' \in [Codes -> Evidence!Artifacts]
        /\ \A k \in Codes \ {h} : artifact'[k] = artifact[k]
    BY <1>3 DEF Evidence!Store, Evidence!IndInv, Evidence!TypeOK, Evidence!Artifacts
  <2> QED BY <1>3, <2>1, <2>2, EvidenceSettleInv DEF Evidence!Store, Evidence!IndInv,
       Evidence!TypeOK
<1> QED BY <1>1, <1>2, <1>3

\* A failure may be retried.
LEMMA EvidenceRetryDueInv ==
  ASSUME Evidence!IndInv, NEW h \in Codes, Evidence!RetryDue(h)
  PROVE  Evidence!IndInv'
<1> USE DEF Evidence!RetryDue, Evidence!service, Evidence!IndInv
<1>1. Evidence!TypeOK' /\ Evidence!OneCall'
  BY DEF Evidence!TypeOK, Evidence!OneCall, Evidence!Artifacts
<1>2. Evidence!AsksForMissing' /\ Evidence!WaitsInMap'
  BY DEF Evidence!TypeOK, Evidence!AsksForMissing, Evidence!WaitsInMap
<1> QED BY <1>1, <1>2

\* trace-api restarts.
LEMMA EvidenceGatewayRestartsInv ==
  ASSUME Evidence!IndInv, Evidence!GatewayRestarts
  PROVE  Evidence!IndInv'
<1> USE CallsAreRequests DEF Evidence!Assumptions, Evidence!GatewayRestarts, Evidence!Lose,
     Evidence!IndInv
<1>1. Evidence!TypeOK'
  BY DEF Evidence!TypeOK, Evidence!Flights, Evidence!Answers
<1>2. Evidence!OneCall'
  BY DEF Evidence!TypeOK, Evidence!OneCall
<1>3. Evidence!AsksForMissing' /\ Evidence!WaitsInMap'
  BY DEF Evidence!TypeOK, Evidence!AsksForMissing, Evidence!WaitsInMap
<1> QED BY <1>1, <1>2, <1>3

\* A process closes its pipes.
LEMMA EvidenceClosedInv ==
  ASSUME Evidence!IndInv, NEW s \in Slots, NEW outcome \in Evidence!Outcomes, process[s] # Free,
         Evidence!Closed(s, outcome)
  PROVE  Evidence!IndInv'
<1> USE CallsAreRequests DEF Evidence!Assumptions, Evidence!Closed, Evidence!IndInv
<1>1. process[s] \in Codes
  BY DEF Evidence!TypeOK
<1>2. Evidence!TypeOK'
  BY <1>1 DEF Evidence!TypeOK, Evidence!Outcomes
<1>3. Evidence!OneCall'
  <2>1. \A t \in Slots : heard'[t] =>
          t # s /\ heard[t] /\ process'[t] = process[t] /\ process[t] # Free
                /\ flight[process[t]] = "calling" /\ reply[process[t]] = "none"
    BY DEF Evidence!TypeOK, Evidence!OneCall
  <2>2. \A t \in Slots : heard'[t] => reply'[process[t]] = "none"
    BY <1>1, <2>1 DEF Evidence!TypeOK, Evidence!OneCall
  <2>3. \A h \in Codes : reply'[h] # "none" => flight[h] \in {"calling", "storing"}
    BY <1>1 DEF Evidence!TypeOK, Evidence!OneCall
  <2>4. \A h \in Codes : reply'[h] = "none" => reply[h] = "none" /\ ~(heard[s] /\ process[s] = h)
    BY <1>1 DEF Evidence!TypeOK, Evidence!Outcomes
  <2>5. \A h \in Codes : flight[h] = "calling" /\ reply'[h] = "none" =>
          \E t \in Slots : heard'[t] /\ process'[t] = h
    BY <2>4 DEF Evidence!TypeOK, Evidence!OneCall
  <2>6. \A h \in Codes : flight[h] = "storing" => reply'[h] # "none"
    BY <2>4 DEF Evidence!OneCall
  <2>7. \A t, u \in Slots : heard'[t] /\ heard'[u] /\ process'[t] = process'[u] => t = u
    BY <2>1 DEF Evidence!OneCall
  <2> QED BY <2>1, <2>2, <2>3, <2>5, <2>6, <2>7 DEF Evidence!OneCall
<1>4. Evidence!AsksForMissing' /\ Evidence!WaitsInMap'
  BY DEF Evidence!AsksForMissing, Evidence!WaitsInMap
<1> QED BY <1>2, <1>3, <1>4

\* A process ends or is signalled.
LEMMA EvidenceProcessInv ==
  ASSUME Evidence!IndInv, NEW s \in Slots,
         \/ Evidence!Exits(s) \/ Evidence!Dies(s)
         \/ Evidence!Deadline(s) \/ Evidence!Kill(s) \/ Evidence!Overruns(s)
  PROVE  Evidence!IndInv'
<1>1. CASE Evidence!Exits(s) \/ Evidence!Dies(s)
  BY <1>1, EvidenceClosedInv DEF Evidence!Exits, Evidence!Dies, Evidence!Outcomes
<1>2. CASE Evidence!Deadline(s) \/ Evidence!Kill(s) \/ Evidence!Overruns(s)
  <2>1. /\ signalled' \in [Slots -> {"none", "term", "kill"}]
        /\ UNCHANGED <<asked, flight, reply, artifact, process, heard, losses>>
    BY <1>2 DEF Evidence!Deadline, Evidence!Kill, Evidence!Overruns, Evidence!gateway,
         Evidence!IndInv, Evidence!TypeOK
  <2> QED BY <2>1 DEF Evidence!IndInv, Evidence!TypeOK, Evidence!OneCall,
       Evidence!AsksForMissing, Evidence!WaitsInMap
<1> QED BY <1>1, <1>2

\* The service restarts.
LEMMA EvidenceServiceRestartsInv ==
  ASSUME Evidence!IndInv, NEW cut \in SUBSET Codes, Evidence!ServiceRestarts(cut)
  PROVE  Evidence!IndInv'
<1> USE CallsAreRequests DEF Evidence!Assumptions, Evidence!ServiceRestarts, Evidence!Lose,
     Evidence!IndInv
<1>1. Evidence!TypeOK'
  BY DEF Evidence!TypeOK, Evidence!Flights, Evidence!Outcomes
<1>2. Evidence!OneCall'
  BY DEF Evidence!TypeOK, Evidence!OneCall
<1>3. Evidence!AsksForMissing' /\ Evidence!WaitsInMap'
  BY DEF Evidence!TypeOK, Evidence!AsksForMissing, Evidence!WaitsInMap
<1> QED BY <1>1, <1>2, <1>3

\* Every step keeps the inductive invariant.
LEMMA EvidenceNextInv ==
  ASSUME Evidence!IndInv, [Evidence!Next]_Evidence!vars
  PROVE  Evidence!IndInv'
<1>1. CASE UNCHANGED Evidence!vars
  BY <1>1 DEF Evidence!vars, Evidence!gateway, Evidence!service, Evidence!IndInv,
       Evidence!TypeOK, Evidence!OneCall, Evidence!AsksForMissing, Evidence!WaitsInMap
<1>2. CASE Evidence!Next
  BY <1>2, EvidenceResolveInv, EvidenceTakenInv, EvidenceSettlesInv, EvidenceAcceptInv,
     EvidenceRefuseInv, EvidenceDeliverInv, EvidenceClientTimeoutInv, EvidenceRetryDueInv,
     EvidenceGatewayRestartsInv, EvidenceProcessInv, EvidenceServiceRestartsInv
  DEF Evidence!Next, Evidence!Work, Evidence!Gateway
<1> QED BY <1>1, <1>2

\* ONE CALL.  Per codehash one promise, one process that is heard for it, and
\* only for an artifact that is not stored.
THEOREM OneCallPerCode == Evidence!Spec => []Evidence!IndInv
<1>1. Evidence!Init => Evidence!IndInv
  BY EvidenceInitInv
<1>2. Evidence!IndInv /\ [Evidence!Next]_Evidence!vars => Evidence!IndInv'
  BY EvidenceNextInv
<1> QED BY <1>1, <1>2, PTL DEF Evidence!Spec

\* NEVER FORGOTTEN.  Once the pseudocode of a codehash is stored, no answer is
\* the bare bytecode.
THEOREM NotForgotten == Evidence!Spec => Evidence!NeverForgotten
<1> DEFINE Step == \A r \in Calls :
             asked[r] # "opaque" /\ asked'[r] = "opaque" => artifact[CodeOf[r]] # "decompiled"
<1>1. Evidence!IndInv /\ [Evidence!Next]_Evidence!vars => [Step]_Evidence!vars
  <2> SUFFICES ASSUME Evidence!IndInv, Evidence!Next, NEW r \in Calls,
                      asked[r] # "opaque", asked'[r] = "opaque",
                      artifact[CodeOf[r]] = "decompiled"
               PROVE  FALSE
    BY DEF Evidence!vars
  <2>1. CodeOf[r] \in Codes
    BY CallsAreRequests DEF Evidence!Assumptions
  <2>2. ASSUME NEW q \in Calls, Evidence!Resolve(q) \/ Evidence!Taken(q) PROVE FALSE
    BY <2>2 DEF Evidence!Resolve, Evidence!Taken, Evidence!IndInv, Evidence!TypeOK
  <2>3. ASSUME NEW h \in Codes, Evidence!Hit(h) PROVE FALSE
    BY <2>3 DEF Evidence!Hit, Evidence!Settle, Evidence!IndInv, Evidence!TypeOK
  <2>4. ASSUME NEW h \in Codes, Evidence!Store(h) PROVE FALSE
    BY <2>4 DEF Evidence!Store, Evidence!Settle, Evidence!IndInv, Evidence!TypeOK,
         Evidence!AsksForMissing
  <2>5. ASSUME NEW h \in Codes, Evidence!StoreFails(h) PROVE FALSE
    BY <2>5 DEF Evidence!StoreFails, Evidence!Settle, Evidence!IndInv, Evidence!TypeOK
  <2>6. ASSUME UNCHANGED asked PROVE FALSE
    BY <2>6
  <2>7. CASE Evidence!GatewayRestarts
    BY <2>7 DEF Evidence!GatewayRestarts, Evidence!IndInv, Evidence!TypeOK
  <2> QED
    BY <2>2, <2>3, <2>4, <2>5, <2>6, <2>7
    DEF Evidence!Next, Evidence!Work, Evidence!Gateway, Evidence!Accept, Evidence!Refuse,
        Evidence!Deliver, Evidence!ClientTimeout, Evidence!RetryDue, Evidence!Exits,
        Evidence!Deadline, Evidence!Kill, Evidence!Overruns, Evidence!Dies, Evidence!Closed,
        Evidence!ServiceRestarts, Evidence!gateway
<1> QED BY <1>1, OneCallPerCode, PTL DEF Evidence!Spec, Evidence!NeverForgotten

-----------------------------------------------------------------------------
(* The composition.                                                        *)

\* A step of Analysis is a step of ContractAnalysis, or none.
LEMMA AnalysisStep == [Next]_vars => [AnalysisNext]_analysis
  BY DEF Next, vars, AnalysisNext, Request, Resolved, Unresolved, TimesOut, Answered

\* Analysis implements ContractAnalysis: a call gets evidence whatever the
\* gateway and the service do.
THEOREM ImplementsAnalysis == Spec => AnalysisSpec
<1>1. Init => AnalysisInit
  BY DEF Init
<1> QED BY <1>1, AnalysisStep, PTL DEF Spec, AnalysisSpec

\* TOLD IS STORED.  A bundle that was handed to a model is stored.
THEOREM ToldStored == Spec => []ToldIsStored
<1>1. AnalysisIndInv => ToldIsStored
  BY DEF AnalysisIndInv
<1> QED BY <1>1, OneChild, ImplementsAnalysis, PTL

\* A step of Analysis is a step of the gateway and its service, or none.
LEMMA GatewayStep == [Next]_vars => [Evidence!Next]_Evidence!vars
<1> SUFFICES ASSUME [Next]_vars PROVE [Evidence!Next]_Evidence!vars
  OBVIOUS
<1>1. CASE UNCHANGED gateway
  BY <1>1 DEF gateway, Evidence!vars, Evidence!gateway, Evidence!service
<1>2. CASE (\E c \in Calls : Evidence!Resolve(c) \/ Evidence!Taken(c)) \/ Evidence!Work
  BY <1>2 DEF Evidence!Next
<1>3. Next \/ UNCHANGED gateway
  BY DEF vars
<1> QED BY <1>1, <1>2, <1>3 DEF Next, Request, Resolved, Unresolved, TimesOut

\* Analysis implements Decompilation: the calls ask as its requests do.
THEOREM ImplementsGateway == Spec => Evidence!Spec
<1>1. Init => Evidence!Init
  BY DEF Init
<1> QED BY <1>1, GatewayStep, PTL DEF Spec, Evidence!Spec

\* NEVER FORGOTTEN.  Once the pseudocode of a contract is stored, no call of any
\* turn gets its bare bytecode from the gateway.
THEOREM CallsDoNotForget == Spec => NeverForgotten
  BY NotForgotten, ImplementsGateway, PTL DEF NeverForgotten

\* THE INVARIANTS of both components hold together.
THEOREM Together == Spec => []IndInv
<1>1. AnalysisIndInv /\ Evidence!IndInv => IndInv
  BY DEF IndInv, Evidence!IndInv
<1> QED BY <1>1, OneCallPerCode, OneChild, ImplementsAnalysis, ImplementsGateway, PTL

=============================================================================
