------------------------- MODULE EvidenceImport_proofs -------------------------
(***************************************************************************)
(* Proofs about EvidenceImport, for any incidents, sources and faults.       *)
(*                                                                         *)
(* A row is held only between the statement that wrote it and the end of the *)
(* transaction, and a row that is inserted once is held only while it is not *)
(* there; so what a COMMIT changes was not there before, or it is the source *)
(* and was locked by a reader who had seen it - unless there had been nothing *)
(* to lock.                                                                *)
(***************************************************************************)
EXTENDS EvidenceImport, TLAPS

\* The rows, and what each may hold.
LEMMA RowFacts ==
  /\ None \notin Projects \cup Contents \cup {Negative, "bytes"}
  /\ Negative \notin Contents
  /\ Kept = {"bytes", "code", "deployment", "relation"} \cup Contents
  /\ Rows = Kept \cup {"source"} /\ "source" \notin Kept
  /\ Values("bytes") = {"bytes"} /\ Values("code") = {"bytes"}
  /\ Values("deployment") = {"bytes"}
  /\ Values("relation") = Projects /\ Values("source") = Contents \cup {Negative}
  /\ \A c \in Contents : Values(c) = {c} /\ Holding(c) = {"lock", "write", "sourceEnd"}
  /\ Holding("bytes") = {"code", "codeEnd"} /\ Holding("code") = {"codeEnd"}
  /\ Holding("deployment") = {"deploymentEnd"} /\ Holding("source") = {"write", "sourceEnd"}
  /\ Holding("relation") = {"relationEnd"}
  /\ \A row \in Rows : None \notin Values(row)
<1>1. NamesDiffer
  BY NamesDiffer
<1>2. \A c \in Contents : c \notin {"bytes", "code", "deployment", "relation", "source"}
  BY <1>1 DEF NamesDiffer
<1>3. \A c \in Contents : Values(c) = {c} /\ Holding(c) = {"lock", "write", "sourceEnd"}
  BY <1>2 DEF Values, Holding
<1> QED BY <1>1, <1>2, <1>3 DEF NamesDiffer, Kept, Rows, Values, Holding

\* A row with a holder is not free.
LEMMA HolderFacts ==
  ASSUME IndInv
  PROVE  \A row \in Rows :
           /\ Free(row) <=> pending[row].by = None
           /\ Free(row) => pending[row].value = None
           /\ \A p \in Projects : HeldBy(p, row) => ~Free(row)
  BY RowFacts DEF IndInv, RowsFit, HeldWell, Free, Unheld, HeldBy

\* The first state satisfies the inductive invariant.
LEMMA InitInv == Init => IndInv
<1> SUFFICES ASSUME Init PROVE IndInv
  OBVIOUS
<1>1. TypeOK
  BY RowFacts, FaultsAssumption DEF Init, TypeOK, Unheld, Ended
<1>2. RowsFit /\ HoldsFit
  BY RowFacts DEF Init, RowsFit, HeldWell, HoldsFit, Free, Unheld
<1>3. Reached /\ SourceHasBody /\ OutcomeTrue
  BY RowFacts DEF Init, Reached, Passed, SourceHasBody, OutcomeTrue, TrueFor, Ended, InSource, Unheld
<1> QED BY <1>1, <1>2, <1>3 DEF IndInv

\* An import begins.
LEMMA StartInv == ASSUME IndInv, NEW p \in Projects, Start(p) PROVE IndInv'
<1>1. /\ imports[p].at \in Ended
      /\ imports' = [imports EXCEPT ![p] =
           [at |-> "codeBody", content |-> None, missed |-> FALSE]]
      /\ UNCHANGED <<stored, pending, faults>>
  BY DEF Start
<1>2. TypeOK'
  BY <1>1 DEF IndInv, TypeOK, Statements
<1>3. \A row \in Rows : Free(row) \/ pending[row].by # p
  BY <1>1, RowFacts DEF IndInv, RowsFit, HeldWell, Free, Unheld, Ended
<1>4. RowsFit'
  BY <1>1, <1>3, RowFacts DEF IndInv, TypeOK, RowsFit, HeldWell, Free
<1>5. HoldsFit'
  BY <1>1, <1>3, RowFacts DEF IndInv, TypeOK, HoldsFit, Free, RowsFit
<1>6. Reached'
  BY <1>1 DEF IndInv, TypeOK, Reached, Passed, Wrote, HeldBy, InSource, Ended
<1>7. SourceHasBody' /\ OutcomeTrue'
  BY <1>1 DEF IndInv, TypeOK, SourceHasBody, Wrote, HeldBy, OutcomeTrue, TrueFor
<1> QED BY <1>2, <1>4, <1>5, <1>6, <1>7 DEF IndInv

\* A failed statement gives back what its transaction holds.
LEMMA ThrowInv ==
  ASSUME IndInv, NEW p \in Projects, imports[p].at \in Statements,
         NEW outcome \in {"failed", "conflict"},
         outcome = "conflict" =>
           \/ imports[p].at \in InSource /\ imports[p].content # None
           \/ stored["relation"] \in Projects \ {p},
         Throw(p, outcome), UNCHANGED stored, faults' \in 0..MaxFaults
  PROVE  IndInv'
<1> DEFINE at == imports[p].at
           caught == at \in InSource /\ imports[p].content # None
<1>1. /\ imports' = [imports EXCEPT ![p] =
           IF caught THEN [at |-> "lock", content |-> None, missed |-> FALSE]
           ELSE [imports[p] EXCEPT !.at = outcome]]
      /\ pending' = [row \in Rows |-> IF HeldBy(p, row) THEN Unheld ELSE pending[row]]
      /\ stored' = stored
  BY DEF Throw
<1>2. TypeOK'
  BY <1>1, RowFacts DEF IndInv, TypeOK, Statements, Ended, Unheld
<1>3. \A row \in Rows : /\ HeldBy(p, row) => pending'[row] = Unheld
                        /\ ~HeldBy(p, row) => pending'[row] = pending[row]
                        /\ pending'[row].by # p
  BY <1>1, RowFacts DEF HeldBy, Unheld
<1>4. \A q \in Projects \ {p} : imports'[q] = imports[q]
  BY <1>1 DEF IndInv, TypeOK
<1>5. RowsFit'
  <2> SUFFICES ASSUME NEW row \in Rows PROVE (Free(row) \/ HeldWell(row))'
    BY <1>1 DEF IndInv, RowsFit
  <2>1. CASE HeldBy(p, row)
    <3>1. pending'[row] = Unheld
      BY <2>1, <1>3
    <3> QED BY <3>1 DEF Free, Unheld
  <2>2. CASE ~HeldBy(p, row)
    <3>1. pending'[row] = pending[row] /\ (Free(row) \/ HeldWell(row))
      BY <2>2, <1>3 DEF IndInv, RowsFit, HeldBy
    <3>2. HeldWell(row) => imports'[pending[row].by] = imports[pending[row].by]
      BY <2>2, <1>4 DEF HeldWell, HeldBy
    <3> QED BY <3>1, <3>2 DEF HeldWell, Free, Unheld
  <2> QED BY <2>1, <2>2
<1>6. HoldsFit'
  <2>1. \A row \in Rows : Free(row) => Free(row)'
    <3> SUFFICES ASSUME NEW row \in Rows, Free(row) PROVE Free(row)'
      OBVIOUS
    <3>1. pending'[row] \in {Unheld, pending[row]}
      BY <1>3
    <3> QED BY <3>1 DEF Free, Unheld
  <2>2. \A row \in Kept : (Free(row) \/ stored[row] = None)'
    BY <2>1, <1>1, RowFacts DEF IndInv, HoldsFit
  <2>3. CASE HeldBy(p, "source")
    <3>1. pending'["source"] = Unheld
      BY <2>3, <1>3, RowFacts
    <3> QED BY <2>2, <3>1 DEF HoldsFit, Free, Unheld
  <2>4. CASE ~HeldBy(p, "source")
    <3>1. pending'["source"] = pending["source"]
      BY <2>4, <1>3, RowFacts
    <3>2. ~Free("source") => imports'[pending["source"].by] = imports[pending["source"].by]
      BY <2>4, <1>4, RowFacts DEF IndInv, RowsFit, HeldWell, HeldBy
    <3> QED BY <2>2, <3>1, <3>2, <1>1 DEF IndInv, HoldsFit, Free, Unheld
  <2> QED BY <2>3, <2>4
<1>7. \A q \in Projects \ {p}, row \in Rows : /\ Wrote(q, row) => Wrote(q, row)'
                                              /\ HeldBy(q, row) => HeldBy(q, row)'
  BY <1>1, <1>3 DEF Wrote, HeldBy
<1>8. caught => \A row \in {"bytes", "code", "deployment"} : Wrote(p, row)'
  <2> SUFFICES ASSUME caught, NEW row \in {"bytes", "code", "deployment"}
               PROVE  Wrote(p, row)'
    OBVIOUS
  <2>1. Wrote(p, row)
    BY DEF IndInv, Reached, Passed, InSource, Ended
  <2>2. ~HeldBy(p, row)
    BY RowFacts, HolderFacts DEF IndInv, RowsFit, HeldWell, HeldBy, Free, Unheld, InSource
  <2> QED BY <1>1, <2>1, <2>2, RowFacts DEF Wrote, Values
<1>9. Reached'
  <2> SUFFICES ASSUME NEW q \in Projects PROVE Passed(q)'
    BY DEF Reached
  <2>1. CASE q # p
    <3>1. Passed(q) /\ imports'[q] = imports[q]
      BY <2>1, <1>4 DEF IndInv, Reached
    <3>2. \A row \in Rows : /\ Wrote(q, row) => Wrote(q, row)'
                            /\ HeldBy(q, row) => HeldBy(q, row)'
      BY <2>1, <1>7
    <3> QED BY <3>1, <3>2, <1>1, RowFacts DEF Passed, IndInv, TypeOK
  <2>2. CASE q = p
    BY <2>2, <1>1, <1>8 DEF IndInv, TypeOK, Passed, Ended, InSource
  <2> QED BY <2>1, <2>2
<1>10. SourceHasBody'
  BY <1>1, <1>3, RowFacts DEF IndInv, SourceHasBody, Wrote, HeldBy, Unheld, Values
<1>11. OutcomeTrue'
  BY <1>1, <1>4 DEF IndInv, TypeOK, OutcomeTrue, TrueFor, InSource
<1> QED BY <1>2, <1>5, <1>6, <1>9, <1>10, <1>11 DEF IndInv

\* What a COMMIT gives: the rows of p are there, and those of others untouched.
LEMMA CommittedFacts ==
  ASSUME IndInv, NEW p \in Projects, Committed(p)
  PROVE  /\ \A row \in Rows :
              /\ HeldBy(p, row) => stored'[row] = pending[row].value /\ pending'[row] = Unheld
              /\ ~HeldBy(p, row) => stored'[row] = stored[row] /\ pending'[row] = pending[row]
              /\ Free(row) => Free(row)'
              /\ stored'[row] \in Values(row) \cup {None}
              /\ stored[row] \in Values(row) => stored'[row] \in Values(row)
              /\ Wrote(p, row) => stored'[row] \in Values(row)
         /\ \A row \in Kept : stored[row] # None => stored'[row] = stored[row]
         /\ \A q \in Projects \ {p}, row \in Rows :
              /\ Wrote(q, row) => Wrote(q, row)'
              /\ HeldBy(q, row) => HeldBy(q, row)'
<1>1. \A row \in Rows :
        /\ HeldBy(p, row) => stored'[row] = pending[row].value /\ pending'[row] = Unheld
        /\ ~HeldBy(p, row) => stored'[row] = stored[row] /\ pending'[row] = pending[row]
  BY DEF Committed
<1>2. \A row \in Rows : Free(row) => Free(row)'
  <2> SUFFICES ASSUME NEW row \in Rows, Free(row) PROVE Free(row)'
    OBVIOUS
  <2>1. pending'[row] \in {Unheld, pending[row]}
    BY <1>1
  <2> QED BY <2>1 DEF Free, Unheld
<1>3. \A row \in Rows : HeldBy(p, row) => HeldWell(row) /\ ~Free(row)
  BY HolderFacts DEF IndInv, RowsFit
<1>4. \A row \in Rows : /\ stored[row] \in Values(row) \cup {None}
                        /\ None \notin Values(row)
                        /\ HeldBy(p, row) => pending[row].value \in Values(row)
  BY <1>3, RowFacts DEF IndInv, RowsFit, HeldWell
<1>5. \A row \in Rows :
        /\ stored'[row] \in Values(row) \cup {None}
        /\ stored[row] \in Values(row) => stored'[row] \in Values(row)
        /\ Wrote(p, row) => stored'[row] \in Values(row)
  <2> TAKE row \in Rows
  <2>1. CASE HeldBy(p, row)
    BY <2>1, <1>1, <1>4
  <2>2. CASE ~HeldBy(p, row)
    BY <2>2, <1>1, <1>4 DEF Wrote
  <2> QED BY <2>1, <2>2
<1>6. \A row \in Kept : stored[row] # None => stored'[row] = stored[row]
  BY <1>1, <1>3, RowFacts DEF IndInv, HoldsFit
<1>7. \A q \in Projects \ {p}, row \in Rows : HeldBy(q, row) => HeldBy(q, row)'
  <2> SUFFICES ASSUME NEW q \in Projects \ {p}, NEW row \in Rows, HeldBy(q, row)
               PROVE  HeldBy(q, row)'
    OBVIOUS
  <2>1. ~HeldBy(p, row)
    BY DEF HeldBy
  <2>2. pending'[row] = pending[row]
    BY <2>1, <1>1
  <2> QED BY <2>2 DEF HeldBy
<1>8. \A q \in Projects \ {p}, row \in Rows : Wrote(q, row) => Wrote(q, row)'
  <2> SUFFICES ASSUME NEW q \in Projects \ {p}, NEW row \in Rows, Wrote(q, row)
               PROVE  Wrote(q, row)'
    OBVIOUS
  <2>1. CASE HeldBy(q, row)
    BY <2>1, <1>7 DEF Wrote
  <2>2. CASE stored[row] \in Values(row)
    <3>1. stored'[row] \in Values(row)
      BY <2>2, <1>5
    <3> QED BY <3>1, RowFacts DEF Wrote, Values
  <2> QED BY <2>1, <2>2 DEF Wrote
<1> QED BY <1>1, <1>2, <1>5, <1>6, <1>7, <1>8

\* What a COMMIT leaves of the invariant, whatever becomes of the import itself.
LEMMA CommittedInv ==
  ASSUME IndInv, NEW p \in Projects, Committed(p), faults' \in 0..MaxFaults,
         imports[p].at \in {"codeEnd", "deploymentEnd", "sourceEnd", "relationEnd"},
         NEW import \in [at : Statements \cup Ended, content : Contents \cup {None},
                         missed : BOOLEAN],
         imports' = [imports EXCEPT ![p] = import]
  PROVE  /\ TypeOK' /\ RowsFit' /\ HoldsFit' /\ SourceHasBody'
         /\ imports'[p] = import
         /\ \A q \in Projects \ {p} : imports'[q] = imports[q] /\ Passed(q)'
         /\ \A row \in Rows : ~HeldBy(p, row)'
<1>1. TypeOK'
  <2>1. stored' \in [Rows -> Contents \cup Projects \cup {None, Negative, "bytes"}]
    BY DEF Committed, IndInv, TypeOK
  <2>2. pending' \in [Rows -> [by : Projects \cup {None},
                     value : Contents \cup Projects \cup {None, Negative, "bytes"}]]
    BY DEF Committed, IndInv, TypeOK, Unheld
  <2> QED BY <2>1, <2>2 DEF IndInv, TypeOK
<1>2. imports'[p] = import /\ \A q \in Projects \ {p} : imports'[q] = imports[q]
  BY DEF IndInv, TypeOK
<1>3. RowsFit'
  <2> SUFFICES ASSUME NEW row \in Rows PROVE (Free(row) \/ HeldWell(row))'
    BY CommittedFacts, RowFacts DEF RowsFit, Values
  <2>1. CASE HeldBy(p, row)
    <3>1. pending'[row] = Unheld
      BY <2>1, CommittedFacts
    <3> QED BY <3>1 DEF Free, Unheld
  <2>2. CASE ~HeldBy(p, row)
    <3>1. pending'[row] = pending[row] /\ (Free(row) \/ HeldWell(row))
      BY <2>2, CommittedFacts DEF IndInv, RowsFit
    <3>2. HeldWell(row) => imports'[pending[row].by] = imports[pending[row].by]
      BY <2>2, <1>2 DEF HeldWell, HeldBy
    <3> QED BY <3>1, <3>2 DEF HeldWell, Free, Unheld, Values, Holding
  <2> QED BY <2>1, <2>2
<1>4. HoldsFit'
  <2>1. \A row \in Kept : (Free(row) \/ stored[row] = None)'
    <3> SUFFICES ASSUME NEW row \in Kept, stored'[row] # None PROVE Free(row)'
      OBVIOUS
    <3>1. row \in Rows
      BY RowFacts
    <3>2. CASE HeldBy(p, row)
      <4>1. pending'[row] = Unheld
        BY <3>1, <3>2, CommittedFacts
      <4> QED BY <4>1 DEF Free, Unheld
    <3>3. CASE ~HeldBy(p, row)
      <4>1. Free(row)
        BY <3>1, <3>3, CommittedFacts DEF IndInv, HoldsFit
      <4> QED BY <3>1, <4>1, CommittedFacts
    <3> QED BY <3>2, <3>3
  <2>2. CASE HeldBy(p, "source")
    <3>1. pending'["source"] = Unheld
      BY <2>2, CommittedFacts, RowFacts
    <3> QED BY <2>1, <3>1 DEF HoldsFit, Free, Unheld
  <2>3. CASE ~HeldBy(p, "source")
    <3>1. pending'["source"] = pending["source"] /\ stored'["source"] = stored["source"]
      BY <2>3, CommittedFacts, RowFacts
    <3>2. ~Free("source") => imports'[pending["source"].by] = imports[pending["source"].by]
      BY <2>3, <1>2, RowFacts DEF IndInv, RowsFit, HeldWell, HeldBy
    <3> QED BY <2>1, <3>1, <3>2 DEF IndInv, HoldsFit, Free, Unheld
  <2> QED BY <2>2, <2>3
<1>5. SourceHasBody'
  <2>1. CASE HeldBy(p, "source")
    <3>1. pending'["source"] = Unheld /\ stored'["source"] = pending["source"].value
      BY <2>1, CommittedFacts, RowFacts
    <3>2. stored'["source"] \in Contents => Wrote(p, stored'["source"])
      BY <2>1, <3>1 DEF IndInv, SourceHasBody, HeldBy
    <3>3. stored'["source"] \in Contents => stored'[stored'["source"]] # None
      <4> DEFINE c == stored'["source"]
      <4>1. \A row \in Rows : Wrote(p, row) => stored'[row] \in Values(row)
        BY CommittedFacts
      <4>2. c \in Contents => c \in Rows /\ Wrote(p, c)
        BY <3>2, RowFacts
      <4>3. c \in Contents => stored'[c] \in Values(c) /\ None \notin Values(c)
        BY <4>1, <4>2, RowFacts
      <4> QED BY <4>3
    <3> QED BY <3>1, <3>3, RowFacts DEF SourceHasBody, Unheld
  <2>2. CASE ~HeldBy(p, "source")
    <3>1. pending'["source"] = pending["source"] /\ stored'["source"] = stored["source"]
      BY <2>2, CommittedFacts, RowFacts
    <3>2. stored'["source"] \in Contents => stored'[stored'["source"]] # None
      BY <3>1, CommittedFacts, RowFacts DEF IndInv, SourceHasBody
    <3>3. pending["source"].value \in Contents =>
            pending["source"].by \in Projects \ {p} /\ pending["source"].value \in Rows
      BY <2>2, HolderFacts, RowFacts DEF IndInv, RowsFit, HeldWell, HeldBy
    <3>4. pending["source"].value \in Contents =>
            Wrote(pending["source"].by, pending["source"].value)'
      BY <3>1, <3>3, CommittedFacts DEF IndInv, SourceHasBody
    <3> QED BY <3>1, <3>2, <3>4 DEF SourceHasBody, Wrote, HeldBy, Values
  <2> QED BY <2>1, <2>2
<1>6. ASSUME NEW q \in Projects \ {p} PROVE Passed(q)'
  <2>1. imports'[q] = imports[q] /\ Passed(q)
    BY <1>2 DEF IndInv, Reached
  <2>2. \A row \in Rows : /\ Wrote(q, row) => Wrote(q, row)'
                          /\ HeldBy(q, row) => HeldBy(q, row)'
    BY CommittedFacts
  <2>3. stored["source"] # None => stored'["source"] # None
    <3>1. "source" \in Rows /\ None \notin Values("source")
      BY RowFacts
    <3>2. stored["source"] # None => stored["source"] \in Values("source")
      BY <3>1 DEF IndInv, RowsFit
    <3>3. stored["source"] # None => stored'["source"] \in Values("source")
      BY <3>1, <3>2, CommittedFacts
    <3> QED BY <3>1, <3>3
  <2>4. HeldBy(q, "source") => stored'["source"] = stored["source"]
    <3>1. HeldBy(q, "source") => ~HeldBy(p, "source")
      BY DEF HeldBy
    <3>2. ~HeldBy(p, "source") => stored'["source"] = stored["source"]
      BY CommittedFacts, RowFacts
    <3> QED BY <3>1, <3>2
  <2>5. stored["relation"] = q => stored'["relation"] = q
    <3>1. "relation" \in Kept /\ q # None
      BY RowFacts
    <3> QED BY <3>1, CommittedFacts
  <2>6. \A row \in {"bytes", "code", "deployment"} : Wrote(q, row) => Wrote(q, row)'
    BY <2>2, RowFacts
  <2>7. imports[q].content # None /\ Wrote(q, imports[q].content)
          => Wrote(q, imports[q].content)'
    <3>1. imports[q].content \in Contents \cup {None}
      BY DEF IndInv, TypeOK
    <3>2. imports[q].content # None => imports[q].content \in Rows
      BY <3>1, RowFacts
    <3> DEFINE c == imports[q].content
    <3>3. c \in Rows /\ Wrote(q, c) => stored'[c] \in Values(c) \/ HeldBy(q, c)'
      <4>1. Values(c)' = Values(c)
        BY <2>1 DEF Values
      <4>2. stored[c] \in Values(c) /\ c \in Rows => stored'[c] \in Values(c) \/ HeldBy(q, c)'
        <5> DEFINE d == c
        <5>1. d \in Rows /\ Wrote(q, d) => Wrote(q, d)'
          BY <2>1, <2>2
        <5> QED BY <5>1, <4>1 DEF Wrote
      <4>3. HeldBy(q, c) /\ c \in Rows => HeldBy(q, c)'
        BY <2>1, <2>2 DEF HeldBy
      <4> QED BY <4>2, <4>3 DEF Wrote
    <3>4. c' = c
      BY <2>1
    <3> QED BY <3>2, <3>3, <3>4 DEF Wrote, HeldBy, Values
  <2>8. HeldBy(q, "source") => HeldBy(q, "source")'
    BY <2>2, RowFacts
  <2>9. HeldBy(q, "relation") => HeldBy(q, "relation")'
    BY <2>2, RowFacts
  <2> QED BY <2>1, <2>3, <2>4, <2>5, <2>6, <2>7, <2>8, <2>9 DEF Passed
<1>7. \A row \in Rows : ~HeldBy(p, row)'
  <2> SUFFICES ASSUME NEW row \in Rows PROVE ~HeldBy(p, row)'
    OBVIOUS
  <2>1. HeldBy(p, row) => pending'[row] = Unheld
    BY CommittedFacts
  <2>2. ~HeldBy(p, row) => pending'[row] = pending[row]
    BY CommittedFacts
  <2> QED BY <2>1, <2>2, RowFacts DEF HeldBy, Unheld
<1> QED BY <1>1, <1>2, <1>3, <1>4, <1>5, <1>6, <1>7

\* What the others see of a COMMIT or its loss: their own outcome stays true.
LEMMA OthersOutcome ==
  ASSUME IndInv, NEW p \in Projects, Committed(p), NEW q \in Projects \ {p},
         SourceHasBody', imports'[q] = imports[q], RowsFit'
  PROVE  TrueFor(q)'
<1>1. \A row \in Kept : stored[row] # None => stored'[row] = stored[row]
  BY CommittedFacts
<1>2. /\ imports[q].at = "done" =>
           /\ \A row \in {"bytes", "code", "deployment"} : stored[row] = "bytes"
           /\ stored["source"] # None /\ stored["relation"] = q
      /\ imports[q].at = "conflict" => stored["relation"] \in Projects \ {q}
  BY DEF IndInv, OutcomeTrue, TrueFor
<1>3. stored["source"] # None => stored'["source"] # None
  BY CommittedFacts, RowFacts DEF IndInv, RowsFit
<1>4. stored'["source"] \in Contents => stored'[stored'["source"]] = stored'["source"]
  <2> DEFINE c == stored'["source"]
  <2>1. c \in Contents => c \in Rows /\ Values(c) = {c} /\ stored'[c] # None
    BY RowFacts DEF SourceHasBody
  <2>2. c \in Rows => stored'[c] \in Values(c) \cup {None}
    BY DEF RowsFit, Values
  <2> QED BY <2>1, <2>2
<1> QED BY <1>1, <1>2, <1>3, <1>4, RowFacts DEF TrueFor

\* COMMIT, and the statement after it.
LEMMA CommitInv == ASSUME IndInv, NEW p \in Projects, Commit(p) PROVE IndInv'
<1>1. /\ Committed(p) /\ faults' = faults
      /\ imports[p].at \in {"codeEnd", "deploymentEnd", "sourceEnd", "relationEnd"}
  BY DEF Commit
<1>2. PICK import \in [at : Statements \cup Ended, content : Contents \cup {None},
                       missed : BOOLEAN] :
        /\ imports' = [imports EXCEPT ![p] = import]
        /\ \/ imports[p].at = "codeEnd" /\ import.at = "deployment"
           \/ /\ imports[p].at = "deploymentEnd"
              /\ \/ import.at = "lock" /\ import.content = None
                 \/ import.at = "body" /\ import.content \in Contents
           \/ imports[p].at = "sourceEnd" /\ import.at = "relation"
           \/ imports[p].at = "relationEnd" /\ import.at = "done"
  <2>1. imports[p] \in [at : Statements \cup Ended, content : Contents \cup {None},
                        missed : BOOLEAN]
    BY DEF IndInv, TypeOK
  <2>2. CASE imports[p].at = "codeEnd"
    <3>1. [imports[p] EXCEPT !.at = "deployment"] \in
            [at : Statements \cup Ended, content : Contents \cup {None}, missed : BOOLEAN]
      BY <2>1 DEF Statements
    <3> QED BY <2>1, <2>2, <3>1 DEF Commit, Goto
  <2>3. CASE imports[p].at = "deploymentEnd"
    <3>1. PICK content \in Contents \cup {None} :
            imports' = [imports EXCEPT ![p] =
              [at |-> IF content = None THEN "lock" ELSE "body",
               content |-> content, missed |-> FALSE]]
      BY <2>3 DEF Commit
    <3>2. [at |-> IF content = None THEN "lock" ELSE "body",
           content |-> content, missed |-> FALSE] \in
            [at : Statements \cup Ended, content : Contents \cup {None}, missed : BOOLEAN]
      BY DEF Statements
    <3> QED BY <2>3, <3>1, <3>2
  <2>4. CASE imports[p].at = "sourceEnd"
    <3>1. [at |-> "relation", content |-> None, missed |-> FALSE] \in
            [at : Statements \cup Ended, content : Contents \cup {None}, missed : BOOLEAN]
      BY DEF Statements
    <3> QED BY <2>4, <3>1 DEF Commit
  <2>5. CASE imports[p].at = "relationEnd"
    <3>1. [imports[p] EXCEPT !.at = "done"] \in
            [at : Statements \cup Ended, content : Contents \cup {None}, missed : BOOLEAN]
      BY <2>1 DEF Ended
    <3> QED BY <2>1, <2>5, <3>1 DEF Commit, Goto
  <2> QED BY <1>1, <2>2, <2>3, <2>4, <2>5
<1>3. faults' \in 0..MaxFaults
  BY <1>1 DEF IndInv, TypeOK
<1>4. /\ TypeOK' /\ RowsFit' /\ HoldsFit' /\ SourceHasBody'
      /\ imports'[p] = import
      /\ \A q \in Projects \ {p} : imports'[q] = imports[q] /\ Passed(q)'
  BY <1>1, <1>2, <1>3, CommittedInv
<1>5. \A row \in Rows : Wrote(p, row) => stored'[row] \in Values(row)
  BY <1>1, CommittedFacts
<1>6. /\ stored'["bytes"] \in Values("bytes")
      /\ imports[p].at # "codeEnd" => stored'["deployment"] \in Values("deployment")
      /\ stored'["code"] \in Values("code")
  BY <1>1, <1>5, RowFacts DEF IndInv, Reached, Passed, Ended, InSource
<1>7. imports[p].at \in {"sourceEnd", "relationEnd"} => stored'["source"] # None
  <2>1. CASE imports[p].at = "sourceEnd"
    BY <2>1, <1>5, RowFacts DEF IndInv, Reached, Passed, Wrote
  <2>2. CASE imports[p].at = "relationEnd"
    <3>1. stored["source"] # None
      BY <2>2 DEF IndInv, Reached, Passed
    <3> QED BY <3>1, <1>1, CommittedFacts, RowFacts DEF IndInv, RowsFit
  <2> QED BY <2>1, <2>2
<1>8. imports[p].at = "relationEnd" => stored'["relation"] = p
  <2> SUFFICES ASSUME imports[p].at = "relationEnd" PROVE stored'["relation"] = p
    OBVIOUS
  <2>1. CASE HeldBy(p, "relation")
    BY <2>1, <1>1, CommittedFacts, RowFacts, HolderFacts
    DEF IndInv, RowsFit, HeldWell, HeldBy
  <2>2. CASE stored["relation"] = p
    <3>1. "relation" \in Kept /\ p # None
      BY RowFacts
    <3> QED BY <2>2, <3>1, <1>1, CommittedFacts
  <2> QED BY <2>1, <2>2 DEF IndInv, Reached, Passed
<1>9. Reached'
  <2>1. Passed(p)'
    BY <1>2, <1>4, <1>6, <1>7 DEF Passed, Wrote, Values, Ended, InSource
  <2> QED BY <2>1, <1>4 DEF Reached
<1>10. OutcomeTrue'
  <2>1. \A q \in Projects \ {p} : TrueFor(q)'
    BY <1>1, <1>4, OthersOutcome
  <2>2. import.at = "done" => imports[p].at = "relationEnd"
    BY <1>2
  <2>3. import.at # "conflict"
    BY <1>2
  <2>4. stored'["source"] \in Contents => stored'[stored'["source"]] = stored'["source"]
    <3> DEFINE c == stored'["source"]
    <3>1. c \in Contents => c \in Rows /\ Values(c) = {c} /\ stored'[c] # None
      BY <1>4, RowFacts DEF SourceHasBody
    <3>2. c \in Rows => stored'[c] \in Values(c) \cup {None}
      BY <1>4 DEF RowsFit, Values
    <3> QED BY <3>1, <3>2
  <2>5. TrueFor(p)'
    BY <2>2, <2>3, <2>4, <1>4, <1>6, <1>7, <1>8, RowFacts DEF TrueFor
  <2> QED BY <2>1, <2>5 DEF OutcomeTrue
<1> QED BY <1>4, <1>9, <1>10 DEF IndInv

\* The answer of a COMMIT is lost: the rows are there, the import does not know.
LEMMA AnswerLostInv == ASSUME IndInv, NEW p \in Projects, AnswerLost(p) PROVE IndInv'
<1>1. /\ Committed(p) /\ faults' \in 0..MaxFaults
      /\ imports[p].at \in {"codeEnd", "deploymentEnd", "sourceEnd", "relationEnd"}
  BY FaultsAssumption DEF AnswerLost, IndInv, TypeOK
<1>2. PICK import \in [at : Statements \cup Ended, content : Contents \cup {None},
                       missed : BOOLEAN] :
        /\ imports' = [imports EXCEPT ![p] = import]
        /\ \/ import.at = "failed"
           \/ imports[p].at = "sourceEnd" /\ import.at = "lock" /\ import.content = None
  <2> DEFINE import ==
        IF imports[p].at = "sourceEnd" /\ imports[p].content # None
        THEN [at |-> "lock", content |-> None, missed |-> FALSE]
        ELSE [imports[p] EXCEPT !.at = "failed"]
  <2>1. imports[p] \in [at : Statements \cup Ended, content : Contents \cup {None},
                        missed : BOOLEAN]
    BY DEF IndInv, TypeOK
  <2>2. import \in [at : Statements \cup Ended, content : Contents \cup {None},
                    missed : BOOLEAN]
    BY <2>1 DEF Statements, Ended
  <2>3. imports' = [imports EXCEPT ![p] = import]
    BY DEF AnswerLost
  <2>4. \/ import.at = "failed"
        \/ imports[p].at = "sourceEnd" /\ import.at = "lock" /\ import.content = None
    BY <2>1
  <2> HIDE DEF import
  <2> QED BY <2>2, <2>3, <2>4
<1>3. /\ TypeOK' /\ RowsFit' /\ HoldsFit' /\ SourceHasBody'
      /\ imports'[p] = import
      /\ \A q \in Projects \ {p} : imports'[q] = imports[q] /\ Passed(q)'
  BY <1>1, <1>2, CommittedInv
<1>4. imports[p].at = "sourceEnd" =>
        \A row \in {"bytes", "code", "deployment"} : stored'[row] \in Values(row)
  BY <1>1, CommittedFacts, RowFacts DEF IndInv, Reached, Passed, Ended, InSource
<1>5. Reached'
  <2>1. Passed(p)'
    BY <1>2, <1>3, <1>4 DEF Passed, Wrote, Values, Ended, InSource
  <2> QED BY <2>1, <1>3 DEF Reached
<1>6. OutcomeTrue'
  <2>1. \A q \in Projects \ {p} : TrueFor(q)'
    BY <1>1, <1>3, OthersOutcome
  <2>2. TrueFor(p)'
    BY <1>2, <1>3 DEF TrueFor
  <2> QED BY <2>1, <2>2 DEF OutcomeTrue
<1> QED BY <1>3, <1>5, <1>6 DEF IndInv

\* A statement fails.
LEMMA FaultInv == ASSUME IndInv, NEW p \in Projects, Fault(p) PROVE IndInv'
  BY ThrowInv, FaultsAssumption DEF Fault, IndInv, TypeOK

\* A statement that holds no new row.
LEMMA MoveInv ==
  ASSUME IndInv, NEW p \in Projects,
         NEW import \in [at : Statements, content : Contents \cup {None}, missed : BOOLEAN],
         imports' = [imports EXCEPT ![p] = import],
         UNCHANGED <<stored, pending, faults>>,
         \A row \in Rows : HeldBy(p, row) => import.at \in Holding(row),
         HeldBy(p, "source") => import.missed = imports[p].missed,
         Passed(p)'
  PROVE  IndInv'
<1>1. imports'[p] = import /\ \A q \in Projects \ {p} : imports'[q] = imports[q]
  BY DEF IndInv, TypeOK
<1>2. TypeOK'
  BY DEF IndInv, TypeOK
<1>3. RowsFit'
  <2> SUFFICES ASSUME NEW row \in Rows PROVE (Free(row) \/ HeldWell(row))'
    BY DEF IndInv, RowsFit, Values
  <2>1. Free(row) \/ HeldWell(row)
    BY DEF IndInv, RowsFit
  <2> QED BY <2>1, <1>1 DEF HeldWell, HeldBy, Free, Unheld, Holding, Values
<1>4. HoldsFit'
  BY <1>1, RowFacts DEF IndInv, HoldsFit, RowsFit, HeldWell, HeldBy, Free, Unheld
<1>5. Reached'
  <2> SUFFICES ASSUME NEW q \in Projects \ {p} PROVE Passed(q)'
    BY DEF Reached
  <2>1. Passed(q) /\ imports'[q] = imports[q] /\ UNCHANGED <<stored, pending>>
    BY <1>1 DEF IndInv, Reached
  <2> QED BY <2>1 DEF Passed, Wrote, HeldBy, Values
<1>6. SourceHasBody' /\ OutcomeTrue'
  BY <1>1 DEF IndInv, SourceHasBody, OutcomeTrue, TrueFor, Wrote, HeldBy, Values, Statements
<1> QED BY <1>2, <1>3, <1>4, <1>5, <1>6 DEF IndInv

\* A statement that inserts, locks or updates a row.
LEMMA HoldInv ==
  ASSUME IndInv, NEW p \in Projects, NEW row \in Rows, NEW value \in Values(row),
         Free(row) \/ HeldBy(p, row), row \in Kept => stored[row] = None,
         row = "relation" => value = p,
         row = "source" => /\ imports[p].missed \/ stored["source"] \in {Negative, value}
                           /\ value \in Contents => Wrote(p, value),
         NEW import \in [at : Statements, content : Contents \cup {None}, missed : BOOLEAN],
         imports' = [imports EXCEPT ![p] = import],
         import.missed = imports[p].missed,
         Hold(p, row, value), UNCHANGED <<stored, faults>>,
         \A r \in Rows : HeldBy(p, r) \/ r = row => import.at \in Holding(r),
         Passed(p)'
  PROVE  IndInv'
<1>1. imports'[p] = import /\ \A q \in Projects \ {p} : imports'[q] = imports[q]
  BY DEF IndInv, TypeOK
<1>2. /\ pending'[row] = [by |-> p, value |-> value]
      /\ \A r \in Rows \ {row} : pending'[r] = pending[r]
  BY DEF Hold, IndInv, TypeOK
<1>3. value \in Contents \cup Projects \cup {None, Negative, "bytes"}
  BY RowFacts DEF Rows, Kept
<1>4. TypeOK'
  BY <1>3 DEF Hold, IndInv, TypeOK
<1>5. \A r \in Rows : HeldBy(p, r)' <=> HeldBy(p, r) \/ r = row
  BY <1>2 DEF HeldBy
<1>6. \A q \in Projects \ {p}, r \in Rows : HeldBy(q, r) => HeldBy(q, r)'
  <2>1. \A q \in Projects \ {p} : ~HeldBy(q, row)
    BY HolderFacts DEF HeldBy
  <2> QED BY <2>1, <1>2 DEF HeldBy
<1>7. RowsFit'
  <2> SUFFICES ASSUME NEW r \in Rows PROVE (Free(r) \/ HeldWell(r))'
    BY DEF IndInv, RowsFit, Values
  <2>1. CASE r = row
    BY <2>1, <1>1, <1>2 DEF HeldWell, Values, Holding
  <2>2. CASE r # row
    <3>1. pending'[r] = pending[r] /\ (Free(r) \/ HeldWell(r))
      BY <2>2, <1>2 DEF IndInv, RowsFit
    <3> QED BY <3>1, <1>1 DEF HeldWell, HeldBy, Free, Unheld, Holding, Values
  <2> QED BY <2>1, <2>2
<1>8. HoldsFit'
  <2>1. \A r \in Kept : (Free(r) \/ stored[r] = None)'
    BY <1>2, RowFacts DEF IndInv, HoldsFit, Free, Unheld
  <2>2. CASE row = "source"
    BY <2>1, <2>2, <1>1, <1>2 DEF HoldsFit
  <2>3. CASE row # "source"
    <3>1. pending'["source"] = pending["source"]
      BY <2>3, <1>2, RowFacts
    <3>2. ~Free("source") => imports'[pending["source"].by].missed
                                = imports[pending["source"].by].missed
      BY <1>1, RowFacts DEF IndInv, RowsFit, HeldWell
    <3> QED BY <2>1, <3>1, <3>2 DEF IndInv, HoldsFit, Free, Unheld
  <2> QED BY <2>2, <2>3
<1>9. \A q \in Projects, r \in Rows : Wrote(q, r) => Wrote(q, r)'
  BY <1>5, <1>6 DEF Wrote, Values
<1>10. Reached'
  <2> SUFFICES ASSUME NEW q \in Projects \ {p} PROVE Passed(q)'
    BY DEF Reached
  <2>1. Passed(q) /\ imports'[q] = imports[q] /\ imports[q].content \in Contents \cup {None}
    BY <1>1 DEF IndInv, Reached, TypeOK
  <2>2. \A r \in Rows : /\ Wrote(q, r) => Wrote(q, r)'
                        /\ HeldBy(q, r) => HeldBy(q, r)'
    BY <1>6, <1>9
  <2>3. imports[q].content # None => imports[q].content \in Rows
    BY <2>1, RowFacts
  <2>4. {"bytes", "code", "deployment", "source", "relation"} \subseteq Rows
    BY RowFacts
  <2> QED BY <2>1, <2>2, <2>3, <2>4 DEF Passed
<1>11. SourceHasBody'
  <2>1. CASE row = "source"
    <3>1. pending'["source"].by = p /\ pending'["source"].value = value
      BY <2>1, <1>2
    <3>2. value \in Contents => Wrote(p, value)'
      BY <2>1, <1>9, RowFacts
    <3> QED BY <3>1, <3>2 DEF IndInv, SourceHasBody, Wrote, HeldBy, Values
  <2>2. CASE row # "source"
    <3>1. pending'["source"] = pending["source"]
      BY <2>2, <1>2, RowFacts
    <3>2. pending["source"].value \in Contents =>
            pending["source"].by \in Projects /\ pending["source"].value \in Rows
      BY HolderFacts, RowFacts DEF IndInv, RowsFit, HeldWell
    <3>3. pending["source"].value \in Contents =>
            Wrote(pending["source"].by, pending["source"].value)'
      BY <3>1, <3>2, <1>9 DEF IndInv, SourceHasBody
    <3> QED BY <3>1, <3>3 DEF IndInv, SourceHasBody, Wrote, HeldBy, Values
  <2> QED BY <2>1, <2>2
<1>12. OutcomeTrue'
  BY <1>1 DEF IndInv, OutcomeTrue, TrueFor, Statements
<1> QED BY <1>4, <1>7, <1>8, <1>10, <1>11, <1>12 DEF IndInv

\* INSERT ... ON CONFLICT DO NOTHING and the comparison after it.
LEMMA KeepInv == ASSUME IndInv, NEW p \in Projects, Keep(p) PROVE IndInv'
<1>0. PICK kept : kept = KeptBy(p)
  OBVIOUS
<1> DEFINE import == [imports[p] EXCEPT !.at = kept.next]
<1>1. /\ imports[p].at \in {"codeBody", "code", "deployment", "body", "relation"}
      /\ Free(kept.row) /\ UNCHANGED <<stored, faults>>
      /\ \/ /\ stored[kept.row] = None
            /\ Goto(p, kept.next) /\ Hold(p, kept.row, kept.value)
         \/ stored[kept.row] = kept.value /\ Goto(p, kept.next) /\ UNCHANGED pending
         \/ /\ stored[kept.row] # None /\ stored[kept.row] # kept.value
            /\ Throw(p, "conflict")
  BY <1>0 DEF Keep
<1>2. imports[p] \in [at : Statements \cup Ended, content : Contents \cup {None},
                      missed : BOOLEAN]
  BY DEF IndInv, TypeOK
<1>3. Passed(p) /\ (imports[p].at = "body" => imports[p].content \in Contents)
  BY DEF IndInv, Reached, Passed
<1>k. /\ imports[p].at = "codeBody" =>
           kept = [row |-> "bytes", value |-> "bytes", next |-> "code"]
      /\ imports[p].at = "code" =>
           kept = [row |-> "code", value |-> "bytes", next |-> "codeEnd"]
      /\ imports[p].at = "deployment" =>
           kept = [row |-> "deployment", value |-> "bytes", next |-> "deploymentEnd"]
      /\ imports[p].at = "body" =>
           kept = [row |-> imports[p].content, value |-> imports[p].content, next |-> "lock"]
      /\ imports[p].at = "relation" =>
           kept = [row |-> "relation", value |-> p, next |-> "relationEnd"]
  BY <1>0 DEF KeptBy
<1>4. /\ kept.row \in Kept /\ kept.row \in Rows /\ kept.value \in Values(kept.row)
      /\ kept.row = "relation" => kept.value = p
      /\ kept.next \in {"code", "codeEnd", "deploymentEnd", "lock", "relationEnd"}
      /\ kept.next \in Holding(kept.row)
  <2>1. CASE imports[p].at = "body"
    BY <2>1, <1>k, <1>3, RowFacts
  <2>2. CASE imports[p].at \in {"codeBody", "code"}
    BY <2>2, <1>k, RowFacts
  <2>3. CASE imports[p].at \in {"deployment", "relation"}
    BY <2>3, <1>k, RowFacts
  <2> QED BY <2>1, <2>2, <2>3, <1>1
<1>5. import \in [at : Statements, content : Contents \cup {None}, missed : BOOLEAN]
  BY <1>2, <1>4 DEF Statements
<1>6. \A row \in Rows : HeldBy(p, row) => kept.next \in Holding(row)
  <2> SUFFICES ASSUME NEW row \in Rows, HeldBy(p, row) PROVE kept.next \in Holding(row)
    OBVIOUS
  <2>1. imports[p].at \in Holding(row)
    BY HolderFacts DEF IndInv, RowsFit, HeldWell, HeldBy
  <2>2. imports[p].at = "code" /\ row = "bytes"
    BY <1>1, <2>1, RowFacts
  <2> QED BY <2>2, RowFacts, <1>0 DEF KeptBy
<1>7. Goto(p, kept.next) => /\ imports' = [imports EXCEPT ![p] = import]
                            /\ imports'[p] = import
  BY <1>2 DEF Goto, IndInv, TypeOK
<1>p. ASSUME Goto(p, kept.next), Wrote(p, kept.row)',
             kept.row = "relation" => HeldBy(p, "relation")' \/ stored'["relation"] = p,
             \A row \in Rows : Wrote(p, row) => Wrote(p, row)'
      PROVE  Passed(p)'
  <2>1. /\ imports'[p].at = kept.next /\ imports'[p].content = imports[p].content
        /\ stored'["source"] = stored["source"]
    BY <1>1, <1>2, <1>7, <1>p
  <2>2. {"bytes", "code", "deployment"} \subseteq Rows
    BY RowFacts
  <2>3. CASE imports[p].at \in {"codeBody", "code"}
    <3>1. Wrote(p, "bytes")' /\ (kept.next = "codeEnd" => Wrote(p, "code")')
      BY <2>2, <2>3, <1>3, <1>k, <1>p DEF Passed, Ended
    <3> QED BY <3>1, <2>1, <2>3, <1>k DEF Passed, Ended, InSource
  <2>4. CASE imports[p].at = "deployment"
    <3>1. Wrote(p, "bytes")' /\ Wrote(p, "code")' /\ Wrote(p, "deployment")'
      BY <2>2, <2>4, <1>3, <1>k, <1>p DEF Passed, Ended
    <3> QED BY <3>1, <2>1, <2>4, <1>k DEF Passed, Ended, InSource
  <2>5. CASE imports[p].at = "body"
    <3>1. Wrote(p, "bytes")' /\ Wrote(p, "code")' /\ Wrote(p, "deployment")'
      BY <2>2, <2>5, <1>3, <1>p DEF Passed, Ended, InSource
    <3>2. kept.row = imports[p].content
      BY <2>5, <1>k
    <3>3. \/ stored'[imports'[p].content] \in Values(imports'[p].content)
          \/ pending'[imports'[p].content].by = p
      BY <3>2, <2>1, <1>p DEF Wrote, HeldBy, Values
    <3> QED BY <3>1, <3>3, <2>1, <2>5, <1>k DEF Passed, Ended, InSource, Wrote, HeldBy, Values
  <2>6. CASE imports[p].at = "relation"
    <3>1. Wrote(p, "bytes")' /\ Wrote(p, "code")' /\ Wrote(p, "deployment")'
      BY <2>2, <2>6, <1>3, <1>p DEF Passed, Ended
    <3>2. stored["source"] # None /\ kept.row = "relation"
      BY <2>6, <1>3, <1>k DEF Passed
    <3> QED BY <3>1, <3>2, <2>1, <2>6, <1>k, <1>p DEF Passed, Ended, InSource
  <2> QED BY <2>3, <2>4, <2>5, <2>6, <1>1
<1>8. CASE stored[kept.row] = None /\ Goto(p, kept.next) /\ Hold(p, kept.row, kept.value)
  <2>1. HeldBy(p, kept.row)' /\ \A row \in Rows : HeldBy(p, row) => HeldBy(p, row)'
    BY <1>4, <1>8 DEF Hold, HeldBy, IndInv, TypeOK
  <2>2. Passed(p)'
    <3>1. \A row \in Rows : Wrote(p, row) => Wrote(p, row)'
      BY <1>1, <2>1 DEF Wrote, Values
    <3>2. Wrote(p, kept.row)' /\ (kept.row = "relation" => HeldBy(p, "relation")')
      BY <2>1 DEF Wrote, HeldBy
    <3> QED BY <3>1, <3>2, <1>8, <1>p
  <2> HIDE DEF import
  <2>3. import.at = kept.next /\ import.missed = imports[p].missed
    BY <1>2 DEF import
  <2>4. kept.row # "source"
    BY <1>4, RowFacts
  <2>5. \A row \in Rows : HeldBy(p, row) \/ row = kept.row => import.at \in Holding(row)
    BY <1>4, <1>6, <2>3
  <2> QED BY <1>1, <1>4, <1>5, <1>7, <1>8, <2>2, <2>3, <2>4, <2>5, HoldInv
<1>9. CASE stored[kept.row] = kept.value /\ Goto(p, kept.next) /\ UNCHANGED pending
  <2>1. \A row \in Rows : Wrote(p, row) => Wrote(p, row)'
    BY <1>1, <1>9 DEF Wrote, HeldBy, Values
  <2>2. Wrote(p, kept.row)'
    BY <1>1, <1>4, <1>9 DEF Wrote, Values
  <2>3. Passed(p)'
    <3>1. kept.row = "relation" => stored'["relation"] = p
      BY <1>1, <1>4, <1>9
    <3> QED BY <3>1, <2>1, <2>2, <1>9, <1>p
  <2> HIDE DEF import
  <2>4. import.at = kept.next /\ import.missed = imports[p].missed
    BY <1>2 DEF import
  <2> QED BY <1>1, <1>5, <1>6, <1>7, <1>9, <2>3, <2>4, MoveInv
<1>10. CASE /\ stored[kept.row] # None /\ stored[kept.row] # kept.value
            /\ Throw(p, "conflict")
  <2>1. kept.row = "relation" /\ stored["relation"] \in Projects \ {p}
    <3>1. stored[kept.row] \in Values(kept.row)
      BY <1>4, <1>10 DEF IndInv, RowsFit
    <3>2. kept.row = "relation" \/ Values(kept.row) = {kept.value}
      BY <1>1, <1>3, RowFacts, <1>0 DEF KeptBy
    <3> QED BY <3>1, <3>2, <1>4, <1>10, RowFacts
  <2> QED BY <1>1, <1>10, <2>1, ThrowInv DEF Statements, IndInv, TypeOK
<1> QED BY <1>1, <1>8, <1>9, <1>10

\* Inside the source's transaction nothing an import has written is unwritten.
LEMMA InSourceStays ==
  ASSUME IndInv, NEW p \in Projects, Passed(p), imports[p].at \in {"lock", "write"},
         \A row \in Rows : Wrote(p, row) => Wrote(p, row)', HeldBy(p, "source")',
         imports'[p].at \in {"write", "sourceEnd"},
         imports'[p].content = imports[p].content,
         imports'[p].at = "write" => stored'["source"] = Negative
  PROVE  Passed(p)'
<1>1. {"bytes", "code", "deployment"} \subseteq Rows
  BY RowFacts
<1>2. Wrote(p, "bytes") /\ Wrote(p, "code") /\ Wrote(p, "deployment")
  BY DEF Passed, Ended, InSource
<1>3. Wrote(p, "bytes")' /\ Wrote(p, "code")' /\ Wrote(p, "deployment")'
  BY <1>1, <1>2
<1> DEFINE c == imports[p].content
<1>4. c # None => c \in Rows /\ Wrote(p, c)
  BY RowFacts DEF IndInv, TypeOK, Passed
<1> HIDE DEF c
<1>5. c # None => Wrote(p, c)
  BY <1>4
<1>6. c # None => stored'[c] \in Values(c) \/ pending'[c].by = p
  BY <1>4 DEF Wrote, HeldBy
<1>7. imports'[p].content = c
  BY DEF c
<1> QED BY <1>3, <1>6, <1>7 DEF Passed, Wrote, HeldBy, Values, Ended, InSource

\* SELECT ... FOR UPDATE.
LEMMA LockInv == ASSUME IndInv, NEW p \in Projects, Lock(p) PROVE IndInv'
<1>1. imports[p].at = "lock" /\ UNCHANGED <<stored, faults>>
  BY DEF Lock
<1>2. /\ imports[p] \in [at : Statements \cup Ended, content : Contents \cup {None},
                         missed : BOOLEAN]
      /\ Passed(p)
  BY DEF IndInv, Reached, TypeOK
<1>3. \A row \in Rows : HeldBy(p, row) =>
        /\ row \in Contents
        /\ "write" \in Holding(row) /\ "sourceEnd" \in Holding(row)
  BY <1>1, RowFacts, HolderFacts DEF IndInv, RowsFit, HeldWell, HeldBy
<1>4. ~HeldBy(p, "source")
  BY <1>3, RowFacts
<1>5. CASE /\ stored["source"] = None /\ UNCHANGED pending
           /\ imports' = [imports EXCEPT ![p].at = "write", ![p].missed = TRUE]
  <2> DEFINE import == [imports[p] EXCEPT !.at = "write", !.missed = TRUE]
  <2>1. /\ import \in [at : Statements, content : Contents \cup {None}, missed : BOOLEAN]
        /\ import.at = "write" /\ import.missed /\ import.content = imports[p].content
    BY <1>2 DEF Statements
  <2>2. imports' = [imports EXCEPT ![p] = import] /\ imports'[p] = import
    BY <1>2, <1>5 DEF IndInv, TypeOK
  <2> HIDE DEF import
  <2>3. Passed(p)'
    BY <1>1, <1>2, <1>5, <2>1, <2>2 DEF Passed, Wrote, HeldBy, Values, Ended, InSource
  <2>4. \A row \in Rows : HeldBy(p, row) => import.at \in Holding(row)
    BY <1>3, <2>1
  <2>5. UNCHANGED <<stored, pending, faults>>
    BY <1>1, <1>5
  <2> QED BY <1>4, <2>1, <2>2, <2>3, <2>4, <2>5, MoveInv
<1>6. ASSUME stored["source"] # None, Free("source"),
             NEW next \in {"write", "sourceEnd"},
             next = "write" => stored["source"] = Negative,
             next = "sourceEnd" => stored["source"] \in Contents,
             Goto(p, next), Hold(p, "source", stored["source"])
      PROVE  IndInv'
  <2> DEFINE import == [imports[p] EXCEPT !.at = next]
  <2>1. /\ import \in [at : Statements, content : Contents \cup {None}, missed : BOOLEAN]
        /\ import.at = next /\ import.missed = imports[p].missed
        /\ import.content = imports[p].content
    BY <1>2 DEF Statements
  <2>2. imports' = [imports EXCEPT ![p] = import] /\ imports'[p] = import
    BY <1>2, <1>6 DEF IndInv, TypeOK, Goto
  <2> HIDE DEF import
  <2>3. stored["source"] \in Values("source") /\ "source" \in Rows
    BY <1>6, RowFacts DEF IndInv, RowsFit
  <2>4. HeldBy(p, "source")' /\ \A row \in Rows : HeldBy(p, row) => HeldBy(p, row)'
    BY <1>6, RowFacts DEF Hold, HeldBy, IndInv, TypeOK
  <2>5. Passed(p)'
    <3>1. \A row \in Rows : Wrote(p, row) => Wrote(p, row)'
      BY <1>1, <2>4 DEF Wrote, Values
    <3>2. stored'["source"] = stored["source"]
      BY <1>1
    <3>3. next = "write" => stored["source"] = Negative
      BY <1>6
    <3> QED BY <1>1, <1>2, <2>1, <2>2, <2>4, <3>1, <3>2, <3>3, InSourceStays
  <2>6. \A row \in Rows : HeldBy(p, row) \/ row = "source" => next \in Holding(row)
    BY <1>3, RowFacts
  <2>7. stored["source"] \in Contents => Wrote(p, stored["source"])
    BY RowFacts DEF IndInv, SourceHasBody, RowsFit, Wrote
  <2>8. "source" \notin Kept /\ "source" # "relation" /\ Negative \notin Contents
    BY RowFacts
  <2>9. imports[p].missed \/ stored["source"] \in {Negative, stored["source"]}
    OBVIOUS
  <2>10. \A row \in Rows : HeldBy(p, row) \/ row = "source" => import.at \in Holding(row)
    BY <2>1, <2>6
  <2> QED BY <1>1, <1>6, <2>1, <2>2, <2>3, <2>5, <2>7, <2>8, <2>9, <2>10, HoldInv
<1>7. CASE stored["source"] # None /\ Throw(p, "conflict") /\ imports[p].content # None
  BY <1>1, <1>7, ThrowInv DEF Statements, InSource, IndInv, TypeOK
<1>8. stored["source"] \in Contents \cup {None, Negative}
  BY RowFacts DEF IndInv, RowsFit
<1> QED BY <1>5, <1>6, <1>7, <1>8, RowFacts DEF Lock

\* INSERT ... ON CONFLICT DO UPDATE.
LEMMA WriteInv == ASSUME IndInv, NEW p \in Projects, Write(p) PROVE IndInv'
<1>0. PICK value :
        value = IF imports[p].content = None THEN Negative ELSE imports[p].content
  OBVIOUS
<1> DEFINE import == [imports[p] EXCEPT !.at = "sourceEnd"]
<1>1. /\ imports[p].at = "write" /\ UNCHANGED <<stored, faults>>
      /\ Free("source") \/ HeldBy(p, "source")
      /\ Hold(p, "source", value) /\ Goto(p, "sourceEnd")
  BY <1>0 DEF Write
<1>2. /\ imports[p] \in [at : Statements \cup Ended, content : Contents \cup {None},
                         missed : BOOLEAN]
      /\ Passed(p)
  BY DEF IndInv, Reached, TypeOK
<1>3. /\ value \in Values("source") /\ "source" \in Rows
      /\ value \in Contents => value = imports[p].content /\ Wrote(p, value)
  BY <1>0, <1>1, <1>2, RowFacts DEF Passed
<1>4. /\ import \in [at : Statements, content : Contents \cup {None}, missed : BOOLEAN]
      /\ import.at = "sourceEnd" /\ import.missed = imports[p].missed
      /\ import.content = imports[p].content
  BY <1>2 DEF Statements
<1>5. imports' = [imports EXCEPT ![p] = import] /\ imports'[p] = import
  BY <1>1, <1>2 DEF IndInv, TypeOK, Goto
<1>6. \A row \in Rows : HeldBy(p, row) \/ row = "source" => "sourceEnd" \in Holding(row)
  BY <1>1, RowFacts, HolderFacts DEF IndInv, RowsFit, HeldWell, HeldBy
<1> HIDE DEF import
<1>7. HeldBy(p, "source")' /\ \A row \in Rows : HeldBy(p, row) => HeldBy(p, row)'
  BY <1>1, RowFacts DEF Hold, HeldBy, IndInv, TypeOK
<1>8. Passed(p)'
  <2>1. \A row \in Rows : Wrote(p, row) => Wrote(p, row)'
    BY <1>1, <1>7 DEF Wrote, Values
  <2> QED BY <1>1, <1>2, <1>4, <1>5, <1>7, <2>1, InSourceStays
<1>9. imports[p].missed \/ stored["source"] \in {Negative, value}
  BY <1>1, <1>2 DEF Passed
<1>10. "source" \notin Kept /\ "source" # "relation"
  BY RowFacts
<1>11. \A r \in Rows : HeldBy(p, r) \/ r = "source" => import.at \in Holding(r)
  BY <1>4, <1>6
<1> QED BY <1>1, <1>3, <1>4, <1>5, <1>8, <1>9, <1>10, <1>11, HoldInv

\* Every step keeps the inductive invariant.
LEMMA NextInv == IndInv /\ [Next]_vars => IndInv'
<1> SUFFICES ASSUME IndInv, [Next]_vars PROVE IndInv'
  OBVIOUS
<1>1. CASE UNCHANGED vars
  <2>1. UNCHANGED <<stored, pending, imports, faults>>
    BY <1>1 DEF vars
  <2>2. Reached'
    BY <2>1 DEF IndInv, Reached, Passed, Wrote, HeldBy, Values
  <2>3. TypeOK' /\ RowsFit' /\ HoldsFit'
    BY <2>1 DEF IndInv, TypeOK, RowsFit, HeldWell, HoldsFit, Free, Unheld, HeldBy, Values, Holding
  <2>4. SourceHasBody' /\ OutcomeTrue'
    BY <2>1 DEF IndInv, SourceHasBody, OutcomeTrue, TrueFor, Wrote, HeldBy, Values
  <2> QED BY <2>2, <2>3, <2>4 DEF IndInv
<1>2. CASE Next
  BY <1>2, StartInv, KeepInv, LockInv, WriteInv, CommitInv, FaultInv, AnswerLostInv
  DEF Next, Runs
<1> QED BY <1>1, <1>2

\* THE INVARIANT.  Rows are held only inside the transaction that wrote them,
\* inserted rows only before they are there.
THEOREM Invariance == Spec => []IndInv
  BY InitInv, NextInv, PTL DEF Spec

\* An import that ends well has stored all it found; one that ends in a conflict
\* met the relation of another incident, never other facts or another source.
THEOREM Outcomes == Spec => []OutcomeTrue
<1>1. IndInv => OutcomeTrue
  BY DEF IndInv
<1> QED BY <1>1, Invariance, PTL

\* EVIDENCE STANDS.  What is committed stays, but for a verified source that an
\* import replaces which had looked for one before there was any.
THEOREM Stands == Spec => EvidenceStands
<1> DEFINE Step == \A row \in Rows :
             stored[row] \notin {None, Negative} /\ stored'[row] # stored[row]
               => /\ row = "source"
                  /\ \E p \in Projects : HeldBy(p, "source") /\ imports[p].missed
<1>1. IndInv /\ [Next]_vars => [Step]_vars
  <2> SUFFICES ASSUME IndInv, Next, NEW row \in Rows,
                      stored[row] \notin {None, Negative}, stored'[row] # stored[row]
               PROVE  /\ row = "source"
                      /\ \E p \in Projects : HeldBy(p, "source") /\ imports[p].missed
    BY DEF vars
  <2>1. PICK p \in Projects : Committed(p)
    BY DEF Next, Runs, Start, Keep, Lock, Write, Commit, Fault, AnswerLost
  <2>2. HeldBy(p, row) /\ stored'[row] = pending[row].value
    BY <2>1, CommittedFacts
  <2>3. row \notin Kept
    BY <2>2, HolderFacts DEF IndInv, HoldsFit
  <2>4. row = "source"
    BY <2>3, RowFacts
  <2>5. imports[p].missed
    BY <2>2, <2>4, HolderFacts, RowFacts DEF IndInv, HoldsFit, HeldBy
  <2> QED BY <2>2, <2>4, <2>5
<1> QED BY <1>1, Invariance, PTL DEF Spec, EvidenceStands

\* Who holds a row that is waited for is in the transaction that wrote it, and the
\* row it may need next is taken by a later statement of that transaction only.
LEMMA HolderGoesOn ==
  ASSUME IndInv, NEW p \in Projects, Waits(p)
  PROVE  /\ Holder(p) \in Projects /\ imports[Holder(p)].at \in Statements
         /\ Waits(Holder(p)) => Wanted(Holder(p)) \in {"code", "source"}
<1>1. Wanted(p) \in Rows
  <2>1. imports[p].at = "body" => imports[p].content \in Contents
    BY DEF IndInv, Reached, Passed
  <2> QED BY <2>1, RowFacts DEF Waits, Wanted, KeptBy
<1>2. HeldWell(Wanted(p))
  BY <1>1, HolderFacts DEF Waits, Holder, IndInv, RowsFit
<1> DEFINE q == Holder(p)
<1>3. q \in Projects /\ imports[q].at \in Holding(Wanted(p))
  BY <1>2 DEF HeldWell, Holder
<1>4. imports[q].at \in {"code", "codeEnd", "deploymentEnd", "lock", "write", "sourceEnd",
                         "relationEnd"}
  <2>1. \/ Wanted(p) \in {"bytes", "code", "deployment", "relation", "source"}
        \/ Wanted(p) \in Contents
    BY <1>1, RowFacts
  <2> QED BY <1>3, <2>1, RowFacts
<1> HIDE DEF q
<1>5. Waits(q) => Wanted(q) \in {"code", "source"}
  BY <1>4 DEF Waits, Wanted, KeptBy
<1>6. imports[q].at \in Statements
  BY <1>4 DEF Statements
<1> QED BY <1>3, <1>5, <1>6 DEF q

\* Who holds the code or the source waits for nobody.
LEMMA LastOfChain ==
  ASSUME IndInv, NEW p \in Projects, Waits(p), Wanted(p) \in {"code", "source"}
  PROVE  Moves(Holder(p))
<1>1. Holder(p) \in Projects /\ imports[Holder(p)].at \in Statements
  BY HolderGoesOn
<1>2. Wanted(p) \in Rows /\ HeldWell(Wanted(p))
  <2>1. Wanted(p) \in Rows
    BY RowFacts
  <2> QED BY <2>1, HolderFacts DEF Waits, Holder, IndInv, RowsFit
<1> DEFINE q == Holder(p)
<1>3. imports[q].at \in Holding(Wanted(p)) /\ q = pending[Wanted(p)].by
  BY <1>2 DEF HeldWell, Holder
<1>4. imports[q].at \in {"codeEnd", "sourceEnd"} \/ (imports[q].at = "write" /\ Wanted(p) = "source")
  BY <1>3, RowFacts
<1> HIDE DEF q
<1>5. CASE imports[q].at \in {"codeEnd", "sourceEnd"}
  <2>1. Wanted(q) = None
    BY <1>5 DEF Wanted
  <2> QED BY <1>1, <2>1 DEF Moves, Waits, q
<1>6. CASE imports[q].at = "write" /\ Wanted(p) = "source"
  <2>1. Wanted(q) = "source"
    BY <1>6 DEF Wanted
  <2>2. Holder(q) = q
    BY <1>3, <1>6, <2>1 DEF Holder
  <2> QED BY <1>1, <2>2 DEF Moves, Waits, q
<1> QED BY <1>4, <1>5, <1>6

\* NO DEADLOCK.  However many incidents import at once, every wait for a row ends,
\* after at most one more, at an import that can go on (postgres.ts:235, 545).
THEOREM NoDeadlock == Spec => []WaitsEnd
<1>1. IndInv => WaitsEnd
  <2> SUFFICES ASSUME IndInv, NEW p \in Projects, Waits(p)
               PROVE  \/ Moves(Holder(p))
                      \/ Waits(Holder(p)) /\ Moves(Holder(Holder(p)))
    BY DEF WaitsEnd
  <2>1. /\ Holder(p) \in Projects /\ imports[Holder(p)].at \in Statements
        /\ Waits(Holder(p)) => Wanted(Holder(p)) \in {"code", "source"}
    BY HolderGoesOn
  <2>2. CASE Waits(Holder(p))
    BY <2>1, <2>2, LastOfChain
  <2>3. CASE ~Waits(Holder(p))
    BY <2>1, <2>3 DEF Moves
  <2> QED BY <2>2, <2>3
<1> QED BY <1>1, Invariance, PTL
=============================================================================
