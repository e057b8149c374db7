------------------------------ MODULE EvidenceImport ------------------------------
(***************************************************************************)
(* How the discovery output of several incidents of one block becomes shared *)
(* evidence: importDiscoveryEvidence of trace-api, over the transactions of  *)
(* PostgresEvidenceStore.  The incidents met the same proxy contract, so     *)
(* their imports write the same rows; nothing orders them, because only the  *)
(* discovery runs are queued.                                              *)
(*                                                                         *)
(* A row is written in one of two ways.  Facts that can only be true (a body *)
(* by its hash, code by its codehash, a deployment, a relation) are inserted *)
(* unless they are there, and compared with what is there.  A source may     *)
(* improve: its row is looked up FOR UPDATE and then upserted.  putToken-    *)
(* Metadata and putDecompilationArtifact write as putSourceArtifact does.    *)
(*                                                                         *)
(* An action is one statement of a transaction under READ COMMITTED.         *)
(***************************************************************************)
EXTENDS Integers

CONSTANTS
  Projects,   \* the incidents' synthetic projects
  Contents,   \* normalized sources the code endpoint may answer with
  MaxFaults,  \* bound: how many statements fail or lose their answer
  None, Negative

Kept == {"bytes", "code", "deployment", "relation"} \cup Contents  \* inserted once
Rows == Kept \cup {"source"}

ASSUME NamesDiffer ==
  /\ None \notin Projects \cup Contents \cup {Negative, "bytes"}
  /\ Negative \notin Contents
  /\ Contents \cap {"bytes", "code", "deployment", "relation", "source"} = {}
ASSUME FaultsAssumption == MaxFaults \in Nat

VARIABLES
  stored,    \* the committed value of each row, None while there is no row
  pending,   \* the open transaction that holds a row and the value it gave it
  imports,   \* of each project: [at, content, missed]
  faults

vars == <<stored, pending, imports, faults>>

\* The statement that comes next; those named ...End are COMMITs.
Statements == {"codeBody", "code", "codeEnd", "deployment", "deploymentEnd",
               "body", "lock", "write", "sourceEnd", "relation", "relationEnd"}
Ended == {"idle", "done", "failed", "conflict"}
InSource == {"body", "lock", "write", "sourceEnd"}

Unheld == [by |-> None, value |-> None]
Free(row) == pending[row] = Unheld
HeldBy(p, row) == pending[row].by = p

Init ==
  /\ stored = [row \in Rows |-> None]
  /\ pending = [row \in Rows |-> Unheld]
  /\ imports = [p \in Projects |-> [at |-> "idle", content |-> None, missed |-> FALSE]]
  /\ faults = 0

Hold(p, row, value) == pending' = [pending EXCEPT ![row] = [by |-> p, value |-> value]]
Goto(p, at) == imports' = [imports EXCEPT ![p].at = at]

\* A verified source is put again, until it is stored.
Throw_BugRetry(p, outcome) ==
  /\ imports' = [imports EXCEPT ![p] =
       IF @.at \in InSource /\ @.content # None
       THEN [at |-> "body", content |-> @.content, missed |-> FALSE]
       ELSE [@ EXCEPT !.at = outcome]]
  /\ pending' = [row \in Rows |->
       IF HeldBy(p, row) THEN Unheld ELSE pending[row]]

\* The connection goes back to the pool without a ROLLBACK.
Throw_BugOpen(p, outcome) ==
  /\ imports' = [imports EXCEPT ![p] =
       IF @.at \in InSource /\ @.content # None
       THEN [at |-> "lock", content |-> None, missed |-> FALSE]
       ELSE [@ EXCEPT !.at = outcome]]
  /\ UNCHANGED pending

\* A failure rolls back.  That of a verified source is caught, and an error is
\* stored in its place; any other fails the import.
Throw(p, outcome) ==
  /\ imports' = [imports EXCEPT ![p] =
       IF @.at \in InSource /\ @.content # None
       THEN [at |-> "lock", content |-> None, missed |-> FALSE]
       ELSE [@ EXCEPT !.at = outcome]]
  /\ pending' = [row \in Rows |->
       IF HeldBy(p, row) THEN Unheld ELSE pending[row]]

-----------------------------------------------------------------------------
\* An import begins, the first or a later one of its project.
Start(p) ==
  /\ imports[p].at \in Ended
  /\ imports' = [imports EXCEPT ![p] =
       [at |-> "codeBody", content |-> None, missed |-> FALSE]]
  /\ UNCHANGED <<stored, pending, faults>>

KeptBy_BugSelf(p) ==
  CASE imports[p].at = "codeBody" -> [row |-> "bytes", value |-> "bytes", next |-> "codeEnd"]
    [] imports[p].at = "code" -> [row |-> "code", value |-> "bytes", next |-> "codeEnd"]
    [] imports[p].at = "deployment" ->
         [row |-> "deployment", value |-> "bytes", next |-> "deploymentEnd"]
    [] imports[p].at = "body" ->
         [row |-> imports[p].content, value |-> imports[p].content, next |-> "lock"]
    [] imports[p].at = "relation" -> [row |-> "relation", value |-> p, next |-> "relationEnd"]

\* What a kept row gets from p, and the statement after it.  The relation's
\* metadata names the project.
KeptBy(p) ==
  CASE imports[p].at = "codeBody" -> [row |-> "bytes", value |-> "bytes", next |-> "code"]
    [] imports[p].at = "code" -> [row |-> "code", value |-> "bytes", next |-> "codeEnd"]
    [] imports[p].at = "deployment" ->
         [row |-> "deployment", value |-> "bytes", next |-> "deploymentEnd"]
    [] imports[p].at = "body" ->
         [row |-> imports[p].content, value |-> imports[p].content, next |-> "lock"]
    [] imports[p].at = "relation" -> [row |-> "relation", value |-> p, next |-> "relationEnd"]

\* INSERT ... ON CONFLICT DO NOTHING waits for a transaction that has inserted
\* the row; the SELECT after it finds a row, and the two are compared.
Keep(p) ==
  /\ imports[p].at \in {"codeBody", "code", "deployment", "body", "relation"}
  /\ LET kept == KeptBy(p)
     IN  /\ Free(kept.row)
         /\ CASE stored[kept.row] = None ->
                   Goto(p, kept.next) /\ Hold(p, kept.row, kept.value)
              [] stored[kept.row] = kept.value -> Goto(p, kept.next) /\ UNCHANGED pending
              [] OTHER -> Throw(p, "conflict")
  /\ UNCHANGED <<stored, faults>>

Lock_Bug(p) ==
  /\ imports[p].at = "lock"
  /\ IF stored["source"] \in Contents
     THEN IF imports[p].content \in {None, stored["source"]}
          THEN Goto(p, "sourceEnd") /\ UNCHANGED pending
          ELSE Throw(p, "conflict")
     ELSE Goto(p, "write") /\ UNCHANGED pending
  /\ UNCHANGED <<stored, faults>>

\* SELECT ... FOR UPDATE does not see a row that is not committed, and then
\* neither waits nor locks.
Lock(p) ==
  /\ imports[p].at = "lock"
  /\ \/ /\ stored["source"] = None
        /\ imports' = [imports EXCEPT ![p].at = "write", ![p].missed = TRUE]
        /\ UNCHANGED pending
     \/ /\ stored["source"] # None /\ Free("source")
        /\ IF stored["source"] \in Contents
           THEN IF imports[p].content \in {None, stored["source"]}
                THEN Goto(p, "sourceEnd") /\ Hold(p, "source", stored["source"])
                ELSE Throw(p, "conflict")
           ELSE Goto(p, "write") /\ Hold(p, "source", stored["source"])
  /\ UNCHANGED <<stored, faults>>

\* INSERT ... ON CONFLICT DO UPDATE waits for who holds the row.
Write(p) ==
  /\ imports[p].at = "write"
  /\ Free("source") \/ HeldBy(p, "source")
  /\ Hold(p, "source", IF imports[p].content = None THEN Negative ELSE imports[p].content)
  /\ Goto(p, "sourceEnd")
  /\ UNCHANGED <<stored, faults>>

\* What COMMIT does to the tables.
Committed(p) ==
  /\ stored' = [row \in Rows |-> IF HeldBy(p, row) THEN pending[row].value ELSE stored[row]]
  /\ pending' = [row \in Rows |-> IF HeldBy(p, row) THEN Unheld ELSE pending[row]]

\* COMMIT, and what the import does next.  After the deployment it asks for the
\* sources: it gets them, or stores that there are none.
Commit(p) ==
  /\ Committed(p)
  /\ \/ imports[p].at = "codeEnd" /\ Goto(p, "deployment")
     \/ /\ imports[p].at = "deploymentEnd"
        /\ \E content \in Contents \cup {None} :
             imports' = [imports EXCEPT ![p] =
               [at |-> IF content = None THEN "lock" ELSE "body",
                content |-> content, missed |-> FALSE]]
     \/ /\ imports[p].at = "sourceEnd"
        /\ imports' = [imports EXCEPT ![p] =
             [at |-> "relation", content |-> None, missed |-> FALSE]]
     \/ imports[p].at = "relationEnd" /\ Goto(p, "done")
  /\ UNCHANGED faults

\* A statement fails, or the connection breaks and the database rolls back.
Fault(p) ==
  /\ imports[p].at \in Statements /\ faults < MaxFaults
  /\ faults' = faults + 1
  /\ Throw(p, "failed")
  /\ UNCHANGED stored

\* The connection breaks between a COMMIT and its answer.
AnswerLost(p) ==
  /\ imports[p].at \in {"codeEnd", "deploymentEnd", "sourceEnd", "relationEnd"}
  /\ faults < MaxFaults
  /\ faults' = faults + 1
  /\ Committed(p)
  /\ imports' = [imports EXCEPT ![p] =
       IF @.at = "sourceEnd" /\ @.content # None
       THEN [at |-> "lock", content |-> None, missed |-> FALSE]
       ELSE [@ EXCEPT !.at = "failed"]]

Runs(p) == Keep(p) \/ Lock(p) \/ Write(p) \/ Commit(p)
Next == \E p \in Projects : Start(p) \/ Runs(p) \/ Fault(p) \/ AnswerLost(p)

Spec == Init /\ [][Next]_vars

-----------------------------------------------------------------------------
\* PostgreSQL gives a row to those that wait for it in the order they came, so a
\* statement that could run again and again runs (SF); and a browser goes on
\* asking for its workspace, which starts the next import (WF).
FairSpec == Spec /\ \A p \in Projects : SF_vars(Runs(p)) /\ WF_vars(Start(p))

-----------------------------------------------------------------------------
\* What a row may hold, but for the relation's: that names who stored it.
Values(row) ==
  CASE row = "source" -> Contents \cup {Negative}
    [] row = "relation" -> Projects
    [] row \in Contents -> {row}
    [] OTHER -> {"bytes"}

TypeOK ==
  /\ stored \in [Rows -> Contents \cup Projects \cup {None, Negative, "bytes"}]
  /\ pending \in [Rows -> [by : Projects \cup {None},
                           value : Contents \cup Projects \cup {None, Negative, "bytes"}]]
  /\ imports \in [Projects -> [at : Statements \cup Ended, content : Contents \cup {None},
                               missed : BOOLEAN]]
  /\ faults \in 0..MaxFaults

\* A row is held only between the statement that wrote it and the end of that
\* transaction, and by someone whose value fits.
Holding(row) ==
  CASE row = "bytes" -> {"code", "codeEnd"}
    [] row = "code" -> {"codeEnd"}
    [] row = "deployment" -> {"deploymentEnd"}
    [] row = "source" -> {"write", "sourceEnd"}
    [] row = "relation" -> {"relationEnd"}
    [] OTHER -> {"lock", "write", "sourceEnd"}

HeldWell(row) ==
  /\ pending[row].by \in Projects
  /\ pending[row].value \in Values(row)
  /\ imports[pending[row].by].at \in Holding(row)
  /\ row = "relation" => pending[row].value = pending[row].by

RowsFit ==
  \A row \in Rows :
    /\ stored[row] \in Values(row) \cup {None}
    /\ Free(row) \/ HeldWell(row)

\* Inserted rows are held only before they are there, and a verified source only
\* by its reader or by one who had missed it.
HoldsFit ==
  /\ \A row \in Kept : Free(row) \/ stored[row] = None
  /\ \/ Free("source")
     \/ imports[pending["source"].by].missed
     \/ stored["source"] \in {Negative, pending["source"].value}

\* What has been written by the time an import is at a statement.
Wrote(p, row) == stored[row] \in Values(row) \/ HeldBy(p, row)
Passed(p) ==
  LET at == imports[p].at
  IN  /\ at \notin Ended \cup {"codeBody"} => Wrote(p, "bytes")
      /\ at \notin Ended \cup {"codeBody", "code"} => Wrote(p, "code")
      /\ at \in InSource \cup {"deploymentEnd", "relation", "relationEnd"} =>
           Wrote(p, "deployment")
      /\ at \in {"lock", "write", "sourceEnd"} /\ imports[p].content # None =>
           Wrote(p, imports[p].content)
      /\ at = "body" => imports[p].content \in Contents
      /\ at = "write" =>
           (HeldBy(p, "source") /\ stored["source"] = Negative) \/ imports[p].missed
      /\ at = "sourceEnd" => HeldBy(p, "source")
      /\ at \in {"relation", "relationEnd"} => stored["source"] # None
      /\ at = "relationEnd" => HeldBy(p, "relation") \/ stored["relation"] = p
Reached == \A p \in Projects : Passed(p)

\* A source that is verified, or about to be, has its body.
SourceHasBody ==
  /\ stored["source"] \in Contents => stored[stored["source"]] # None
  /\ pending["source"].value \in Contents =>
       Wrote(pending["source"].by, pending["source"].value)

\* An import ends well only when everything it found is stored as it found it,
\* and a conflict is never about the chain's facts or the source, but about a
\* relation that another incident of the block has stored.
TrueFor(p) ==
  /\ imports[p].at = "done" =>
       /\ \A row \in {"bytes", "code", "deployment"} : stored[row] = "bytes"
       /\ stored["source"] # None
       /\ stored["source"] \in Contents => stored[stored["source"]] = stored["source"]
       /\ stored["relation"] = p
  /\ imports[p].at = "conflict" => stored["relation"] \in Projects \ {p}
OutcomeTrue == \A p \in Projects : TrueFor(p)

\* The inductive invariant.
IndInv == TypeOK /\ RowsFit /\ HoldsFit /\ Reached /\ SourceHasBody /\ OutcomeTrue

\* The row the next statement of p needs: it waits while another holds that row.
Wanted(p) ==
  CASE imports[p].at \in {"codeBody", "code", "deployment", "body", "relation"} -> KeptBy(p).row
    [] imports[p].at = "lock" /\ stored["source"] # None -> "source"
    [] imports[p].at = "write" -> "source"
    [] OTHER -> None

Holder(p) == pending[Wanted(p)].by
Waits(p) == Wanted(p) # None /\ Holder(p) \notin {None, p}
Moves(p) == imports[p].at \in Statements /\ ~Waits(p)

\* No circle of transactions that wait for each other's rows, and no row left held
\* by an import that has ended (postgres.ts:235, 545): who is waited for can go on,
\* or waits in turn for someone who can.
WaitsEnd ==
  \A p \in Projects : Waits(p) =>
    \/ Moves(Holder(p))
    \/ Waits(Holder(p)) /\ Moves(Holder(Holder(p)))

\* Evidence is append-only but for sources that were not verified: a fact once
\* committed stays, and a verified source is replaced at most by an import that
\* had looked for the row before there was one (putSourceArtifact's FOR UPDATE
\* finds nothing to lock then).
EvidenceStands ==
  [][\A row \in Rows :
       stored[row] \notin {None, Negative} /\ stored'[row] # stored[row]
         => /\ row = "source"
            /\ \E p \in Projects : HeldBy(p, "source") /\ imports[p].missed]_vars

\* No import waits for ever for the row of another: statements of one put take
\* their rows in the same order, and every failure gives them back.
EveryImportEnds ==
  \A p \in Projects : imports[p].at = "codeBody" ~> imports[p].at \in Ended

\* "errors are not cached - a later request retries (node may have recovered)",
\* workspace.ts: an import that is tried again and again while nothing fails
\* succeeds at some time.
RetrySucceeds == \A p \in Projects : <>(imports[p].at = "done")

=============================================================================
