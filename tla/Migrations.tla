-------------------------------- MODULE Migrations --------------------------------
(***************************************************************************)
(* Schema migrations of @mev/db: runMigrations (migrations.ts) called         *)
(* through retryableOnce (index.ts) by the services that share one database. *)
(*                                                                         *)
(* A slot is one of the promises a process keeps (appTablesReady,            *)
(* pipelineTablesReady, evidenceTablesReady, allTablesReady); its callers    *)
(* share the run the slot has started, so a slot has one run and one         *)
(* connection at a time.  An action is what runs between two answers of the  *)
(* database; what a transaction did is invisible until its COMMIT.           *)
(***************************************************************************)
EXTENDS Integers, Sequences

CONSTANTS
  Slots,       \* promises kept, over all processes
  Processes,
  ProcessOf,   \* the process a slot belongs to
  Ids,         \* migration ids
  Steps,       \* the migrations a slot applies, in order
  Checksums,
  SumOf,       \* the checksum of a migration in the code a slot runs
  None,        \* no ledger row; no holder of the advisory lock
  MaxFaults    \* bound: how many statements, connections and processes fail

ASSUME SlotAssumption ==
  /\ ProcessOf \in [Slots -> Processes]
  /\ Steps \in [Slots -> Seq(Ids)]
  /\ SumOf \in [Slots -> [Ids -> Checksums]]
ASSUME NoneAssumption == None \notin Slots /\ None \notin Checksums
ASSUME BoundAssumption == MaxFaults \in Nat

VARIABLES
  pc,        \* where the run of a slot is: see Phases
  next,      \* the migration its loop is at, from 1
  applied,   \* what it knows of the ledger
  outcome,   \* what its promise becomes once it has unlocked
  lock,      \* the slot whose connection holds the advisory lock, or None
  ledger,    \* mev_schema_migrations: the checksum of a migration, or None
  executed,  \* how often the DDL of a migration was committed
  faults     \* failures so far

client == <<pc, next, applied, outcome>>
database == <<ledger, executed>>
vars == <<client, lock, database, faults>>

Phases == {"unset", "locking", "locked", "loop", "transaction", "unlocking", "ready"}
\* The phases in which the connection of a slot holds the lock.
Holding == {"locked", "loop", "transaction", "unlocking"}
Running == {"locking"} \cup Holding

Current(s) == Steps[s][next[s]]

Init ==
  /\ pc = [s \in Slots |-> "unset"]
  /\ next = [s \in Slots |-> 1]
  /\ applied = [s \in Slots |-> [m \in Ids |-> None]]
  /\ outcome = [s \in Slots |-> "unset"]
  /\ lock = None
  /\ ledger = [m \in Ids |-> None]
  /\ executed = [m \in Ids |-> 0]
  /\ faults = 0

-----------------------------------------------------------------------------
\* retryableOnce: the first call, or the first one after a failure, connects
\* and asks for the lock.
Ensure(s) ==
  /\ pc[s] = "unset"
  /\ pc' = [pc EXCEPT ![s] = "locking"]
  /\ UNCHANGED <<next, applied, outcome, lock, database, faults>>

\* pg_advisory_lock returns.
Lock(s) ==
  /\ pc[s] = "locking"
  /\ lock = None
  /\ lock' = s
  /\ pc' = [pc EXCEPT ![s] = "locked"]
  /\ UNCHANGED <<next, applied, outcome, database, faults>>

\* The ledger exists and has been read.
ReadLedger(s) ==
  /\ pc[s] = "locked"
  /\ pc' = [pc EXCEPT ![s] = "loop"]
  /\ next' = [next EXCEPT ![s] = 1]
  /\ applied' = [applied EXCEPT ![s] = ledger]
  /\ UNCHANGED <<outcome, lock, database, faults>>

\* The run ends, well or not, and unlocks.
Leave(s, how) ==
  /\ pc' = [pc EXCEPT ![s] = "unlocking"]
  /\ outcome' = [outcome EXCEPT ![s] = how]

\* The checksums are not compared.
Skip_Bug(s) ==
  /\ pc[s] = "loop" /\ next[s] <= Len(Steps[s])
  /\ applied[s][Current(s)] # None
  /\ next' = [next EXCEPT ![s] = @ + 1]
  /\ UNCHANGED <<pc, applied, outcome, lock, database, faults>>

\* The migration has been applied before,
Skip(s) ==
  /\ pc[s] = "loop" /\ next[s] <= Len(Steps[s])
  /\ applied[s][Current(s)] = SumOf[s][Current(s)]
  /\ next' = [next EXCEPT ![s] = @ + 1]
  /\ UNCHANGED <<pc, applied, outcome, lock, database, faults>>

\* or by other code than this,
Mismatch(s) ==
  /\ pc[s] = "loop" /\ next[s] <= Len(Steps[s])
  /\ applied[s][Current(s)] \notin {None, SumOf[s][Current(s)]}
  /\ Leave(s, "unset")
  /\ UNCHANGED <<next, applied, lock, database, faults>>

\* or not: BEGIN, its DDL and its ledger row, which a row of another run for
\* the same migration would make fail.
Execute(s) ==
  /\ pc[s] = "loop" /\ next[s] <= Len(Steps[s])
  /\ applied[s][Current(s)] = None
  /\ IF ledger[Current(s)] = None
     THEN pc' = [pc EXCEPT ![s] = "transaction"] /\ UNCHANGED outcome
     ELSE Leave(s, "unset")
  /\ UNCHANGED <<next, applied, lock, database, faults>>

\* What COMMIT does to the database.
Committed(s) ==
  /\ ledger' = [ledger EXCEPT ![Current(s)] = SumOf[s][Current(s)]]
  /\ executed' = [executed EXCEPT ![Current(s)] = @ + 1]

\* The DDL commits before its ledger row does.
Commit_Bug(s) ==
  /\ pc[s] = "transaction"
  /\ \/ /\ Committed(s)
        /\ applied' = [applied EXCEPT ![s][Current(s)] = SumOf[s][Current(s)]]
        /\ next' = [next EXCEPT ![s] = @ + 1]
        /\ pc' = [pc EXCEPT ![s] = "loop"]
        /\ UNCHANGED <<outcome, lock, faults>>
     \/ /\ faults < MaxFaults /\ faults' = faults + 1
        /\ executed' = [executed EXCEPT ![Current(s)] = @ + 1]
        /\ Leave(s, "unset")
        /\ UNCHANGED <<next, applied, lock, ledger>>

\* COMMIT returns.
Commit(s) ==
  /\ pc[s] = "transaction"
  /\ Committed(s)
  /\ applied' = [applied EXCEPT ![s][Current(s)] = SumOf[s][Current(s)]]
  /\ next' = [next EXCEPT ![s] = @ + 1]
  /\ pc' = [pc EXCEPT ![s] = "loop"]
  /\ UNCHANGED <<outcome, lock, faults>>

\* The loop stops one migration early.
Complete_Bug(s) ==
  /\ pc[s] = "loop" /\ next[s] >= Len(Steps[s])
  /\ Leave(s, "ready")
  /\ UNCHANGED <<next, applied, lock, database, faults>>

\* Every migration has been met.
Complete(s) ==
  /\ pc[s] = "loop" /\ next[s] > Len(Steps[s])
  /\ Leave(s, "ready")
  /\ UNCHANGED <<next, applied, lock, database, faults>>

\* A run that failed keeps the lock.
Unlock_Bug(s) ==
  /\ pc[s] = "unlocking"
  /\ pc' = [pc EXCEPT ![s] = outcome[s]]
  /\ lock' = IF outcome[s] = "ready" THEN None ELSE lock
  /\ UNCHANGED <<next, applied, outcome, database, faults>>

\* finally: pg_advisory_unlock returns, and the promise settles; one that
\* rejects is forgotten.
Unlock(s) ==
  /\ pc[s] = "unlocking"
  /\ pc' = [pc EXCEPT ![s] = outcome[s]]
  /\ lock' = None
  /\ UNCHANGED <<next, applied, outcome, database, faults>>

-----------------------------------------------------------------------------
Fault == faults < MaxFaults /\ faults' = faults + 1

\* A statement fails: ROLLBACK, if a transaction is open.
StatementFails(s) ==
  /\ Fault
  /\ pc[s] \in {"locked", "loop", "transaction"}
  /\ Leave(s, "unset")
  /\ UNCHANGED <<next, applied, lock, database>>

\* The connections of the slots d end, and with them their locks.
Release(d) == lock' = IF lock \in d THEN None ELSE lock

\* The connection breaks; a COMMIT on its way may have been executed.
ConnectionLost(s) ==
  /\ Fault
  /\ pc[s] \in Running
  /\ pc' = [pc EXCEPT ![s] = "unset"]
  /\ Release({s})
  /\ \/ pc[s] = "transaction" /\ Committed(s)
     \/ UNCHANGED database
  /\ UNCHANGED <<next, applied, outcome>>

\* A process restarts: its promises, and its connections, are gone.
Crash(p) ==
  /\ Fault
  /\ pc' = [s \in Slots |-> IF ProcessOf[s] = p THEN "unset" ELSE pc[s]]
  /\ Release({s \in Slots : ProcessOf[s] = p})
  /\ UNCHANGED <<next, applied, outcome, database>>

-----------------------------------------------------------------------------
Migrate(s) ==
  \/ Lock(s) \/ ReadLedger(s) \/ Skip(s) \/ Mismatch(s)
  \/ Execute(s) \/ Commit(s) \/ Complete(s) \/ Unlock(s)

Next ==
  \/ \E s \in Slots : Ensure(s) \/ Migrate(s)
  \/ \E s \in Slots : StatementFails(s) \/ ConnectionLost(s)
  \/ \E p \in Processes : Crash(p)

\* There is nothing to do once every slot is ready; while the code of two of
\* them disagrees one is not, and a state without a step is a deadlock.
Spec == Init /\ [][Next]_vars

\* The database answers, and a waiter for the lock gets it eventually if it is
\* free again and again: PostgreSQL queues waiters.
FairSpec ==
  /\ Spec
  /\ \A s \in Slots : WF_vars(Migrate(s)) /\ SF_vars(Lock(s))

-----------------------------------------------------------------------------
\* Every variable has its type.
TypeOK ==
  /\ pc \in [Slots -> Phases]
  /\ next \in [Slots -> Nat \ {0}]
  /\ applied \in [Slots -> [Ids -> Checksums \cup {None}]]
  /\ outcome \in [Slots -> {"unset", "ready"}]
  /\ lock \in Slots \cup {None}
  /\ ledger \in [Ids -> Checksums \cup {None}]
  /\ executed \in [Ids -> Nat]
  /\ faults \in 0..MaxFaults

\* index.ts:100: migrations are "serialized across services by a Postgres
\* advisory lock": one connection at a time is between lock and unlock.
LockHeld == \A s \in Slots : pc[s] \in Holding <=> lock = s

\* What a run read of the ledger stays true while it works.
LedgerKnown ==
  \A s \in Slots : pc[s] \in {"loop", "transaction"} => applied[s] = ledger

\* index.ts:101: "each ledger write commits with its schema change", once,
\* over failures, ambiguous commits and restarts.
ExecutedOnce ==
  \A m \in Ids : executed[m] = IF ledger[m] = None THEN 0 ELSE 1

\* A service that goes on has every migration it needs, from the code it runs.
ReadyIsMigrated ==
  \A s \in Slots : pc[s] = "ready" =>
    \A i \in 1..Len(Steps[s]) : ledger[Steps[s][i]] = SumOf[s][Steps[s][i]]

\* The part of a run that is behind it, for ReadyIsMigrated.
PrefixMigrated ==
  \A s \in Slots :
    /\ pc[s] \in {"loop", "transaction"} =>
         /\ next[s] <= Len(Steps[s]) + 1
         /\ \A i \in 1..(next[s] - 1) : ledger[Steps[s][i]] = SumOf[s][Steps[s][i]]
    /\ pc[s] = "transaction" => next[s] <= Len(Steps[s]) /\ ledger[Current(s)] = None
    /\ pc[s] = "unlocking" /\ outcome[s] = "ready" =>
         \A i \in 1..Len(Steps[s]) : ledger[Steps[s][i]] = SumOf[s][Steps[s][i]]

\* The inductive invariant of the proofs.
IndInv ==
  TypeOK /\ LockHeld /\ LedgerKnown /\ ExecutedOnce /\ PrefixMigrated /\ ReadyIsMigrated

Promise == INSTANCE SchemaLedger

\* Seen from the database, migrations are the atomic steps of SchemaLedger.
KeepsLedger == Promise!Spec

\* migrations.ts:108: "A process crash releases the lock with the connection and
\* leaves an uncommitted migration retryable": no run waits for ever.
RunsEnd == \A s \in Slots : (pc[s] \in Running) ~> (pc[s] \in {"unset", "ready"})
=============================================================================
