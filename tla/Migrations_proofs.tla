------------------------------ MODULE Migrations_proofs ------------------------------
(***************************************************************************)
(* Proofs about Migrations, for every number of processes, promises and      *)
(* migrations, and any failures.                                             *)
(*                                                                         *)
(* A run decides by what it read of the ledger, and acts on it several       *)
(* statements later.  What makes that sound is LockHeld and LedgerKnown      *)
(* together: only the holder of the advisory lock changes the ledger, and    *)
(* what it read stays equal to it, its own commits included.  A broken        *)
(* connection gives the lock away and, with it, the right to act.            *)
(***************************************************************************)
EXTENDS Migrations, TLAPS

\* The first state satisfies the inductive invariant.
LEMMA InitInv == Init => IndInv
  BY SlotAssumption, NoneAssumption, BoundAssumption
  DEF Init, IndInv, TypeOK, LockHeld, LedgerKnown, ExecutedOnce, PrefixMigrated,
      ReadyIsMigrated, Phases, Holding

\* The holder of the lock is the only slot in a phase that needs it.
LEMMA Alone ==
  ASSUME LockHeld, NEW s \in Slots, NEW d \in Slots, pc[s] \in Holding, d # s
  PROVE  pc[d] \notin Holding
  BY DEF LockHeld

\* Asking for the lock changes nothing that matters.
LEMMA EnsureInv == ASSUME IndInv, NEW s \in Slots, Ensure(s) PROVE IndInv'
  BY SlotAssumption, NoneAssumption
  DEF IndInv, TypeOK, LockHeld, LedgerKnown, ExecutedOnce, PrefixMigrated, ReadyIsMigrated,
      Phases, Holding, Ensure, database, Current

\* The lock is taken when nobody holds it.
LEMMA LockInv == ASSUME IndInv, NEW s \in Slots, Lock(s) PROVE IndInv'
  BY SlotAssumption, NoneAssumption
  DEF IndInv, TypeOK, LockHeld, LedgerKnown, ExecutedOnce, PrefixMigrated, ReadyIsMigrated,
      Phases, Holding, Lock, database, Current

\* What is read is the ledger.
LEMMA ReadLedgerInv == ASSUME IndInv, NEW s \in Slots, ReadLedger(s) PROVE IndInv'
  BY SlotAssumption, NoneAssumption
  DEF IndInv, TypeOK, LockHeld, LedgerKnown, ExecutedOnce, PrefixMigrated, ReadyIsMigrated,
      Phases, Holding, ReadLedger, database, Current

\* The current migration of a loop that has not ended.
LEMMA CurrentId ==
  ASSUME TypeOK, NEW s \in Slots, next[s] <= Len(Steps[s])
  PROVE  next[s] \in 1..Len(Steps[s]) /\ Current(s) = Steps[s][next[s]] /\ Current(s) \in Ids
  BY SlotAssumption DEF TypeOK, Current

\* A migration is passed over only when the ledger has it with this checksum.
LEMMA SkipInv == ASSUME IndInv, NEW s \in Slots, Skip(s) PROVE IndInv'
<1>1. /\ next[s] \in 1..Len(Steps[s])
      /\ ledger[Steps[s][next[s]]] = SumOf[s][Steps[s][next[s]]]
      /\ Len(Steps[s]) \in Nat
  BY CurrentId, SlotAssumption DEF IndInv, LedgerKnown, Skip
<1>2. /\ TypeOK' /\ LockHeld' /\ LedgerKnown' /\ ExecutedOnce' /\ ReadyIsMigrated'
  BY DEF IndInv, TypeOK, LockHeld, LedgerKnown, ExecutedOnce, ReadyIsMigrated, Skip, database
<1>3. PrefixMigrated'
  <2> SUFFICES ASSUME NEW d \in Slots
               PROVE  /\ pc'[d] \in {"loop", "transaction"} =>
                           /\ next'[d] <= Len(Steps[d]) + 1
                           /\ \A i \in 1..(next'[d] - 1) :
                                ledger[Steps[d][i]] = SumOf[d][Steps[d][i]]
                      /\ pc'[d] = "transaction" =>
                           next'[d] <= Len(Steps[d]) /\ ledger[Current(d)'] = None
                      /\ pc'[d] = "unlocking" /\ outcome'[d] = "ready" =>
                           \A i \in 1..Len(Steps[d]) :
                             ledger[Steps[d][i]] = SumOf[d][Steps[d][i]]
    BY DEF PrefixMigrated, Skip, database
  <2>1. CASE d # s
    <3>1. UNCHANGED <<pc, outcome, ledger>> /\ next'[d] = next[d]
      BY <2>1 DEF IndInv, TypeOK, Skip, database
    <3>2. Current(d)' = Current(d)
      BY <3>1 DEF Current
    <3> QED BY <3>1, <3>2 DEF IndInv, PrefixMigrated
  <2>2. CASE d = s
    <3>1. /\ pc'[s] = "loop" /\ next'[s] = next[s] + 1 /\ UNCHANGED ledger
          /\ next[s] \in Nat \ {0} /\ next[s] + 1 <= Len(Steps[s]) + 1
          /\ ledger[Steps[s][next[s]]] = SumOf[s][Steps[s][next[s]]]
      BY <1>1 DEF IndInv, TypeOK, Skip, database, Current
    <3>2. \A i \in 1..(next[s] - 1) : ledger[Steps[s][i]] = SumOf[s][Steps[s][i]]
      BY DEF IndInv, PrefixMigrated, Skip
    <3> QED BY <2>2, <3>1, <3>2
  <2> QED BY <2>1, <2>2
<1> QED BY <1>2, <1>3 DEF IndInv

\* A migration of other code ends the run.
LEMMA MismatchInv == ASSUME IndInv, NEW s \in Slots, Mismatch(s) PROVE IndInv'
  BY SlotAssumption, NoneAssumption
  DEF IndInv, TypeOK, LockHeld, LedgerKnown, ExecutedOnce, PrefixMigrated, ReadyIsMigrated,
      Phases, Holding, Mismatch, Leave, database, Current

\* A transaction is opened for a migration the ledger does not have.
LEMMA ExecuteInv == ASSUME IndInv, NEW s \in Slots, Execute(s) PROVE IndInv'
<1>1. /\ Current(s) = Steps[s][next[s]] /\ Current(s) \in Ids
      /\ Current(s)' = Current(s) /\ ledger[Current(s)] = None
      /\ pc' = [pc EXCEPT ![s] = "transaction"] /\ UNCHANGED outcome
  BY CurrentId, NoneAssumption DEF IndInv, LedgerKnown, Execute, Current
<1>2. \A d \in Slots : Current(d)' = Current(d)
  BY DEF Execute, Current
<1> QED BY <1>1, <1>2
  DEF IndInv, TypeOK, LockHeld, LedgerKnown, ExecutedOnce, PrefixMigrated, ReadyIsMigrated,
      Phases, Holding, Execute, database

\* A run that has met every migration says so, and the ledger agrees.
LEMMA CompleteInv == ASSUME IndInv, NEW s \in Slots, Complete(s) PROVE IndInv'
<1>1. pc[s] = "loop" => next[s] = Len(Steps[s]) + 1 /\ Len(Steps[s]) \in Nat
  BY SlotAssumption DEF IndInv, TypeOK, PrefixMigrated, Complete
<1> QED BY <1>1
  DEF IndInv, TypeOK, LockHeld, LedgerKnown, ExecutedOnce, PrefixMigrated, ReadyIsMigrated,
      Phases, Holding, Complete, Leave, database, Current

\* The lock is given back by its holder, and nobody else works.
LEMMA UnlockInv == ASSUME IndInv, NEW s \in Slots, Unlock(s) PROVE IndInv'
  BY SlotAssumption, NoneAssumption
  DEF IndInv, TypeOK, LockHeld, LedgerKnown, ExecutedOnce, PrefixMigrated, ReadyIsMigrated,
      Phases, Holding, Unlock, database, Current

\* A failed statement ends the run and changes no table.
LEMMA StatementFailsInv == ASSUME IndInv, NEW s \in Slots, StatementFails(s) PROVE IndInv'
  BY SlotAssumption, NoneAssumption, BoundAssumption
  DEF IndInv, TypeOK, LockHeld, LedgerKnown, ExecutedOnce, PrefixMigrated, ReadyIsMigrated,
      Phases, Holding, StatementFails, Fault, Leave, database, Current

\* A restarted process holds no lock and works on nothing.
LEMMA CrashInv == ASSUME IndInv, NEW p \in Processes, Crash(p) PROVE IndInv'
  BY SlotAssumption, NoneAssumption, BoundAssumption
  DEF IndInv, TypeOK, LockHeld, LedgerKnown, ExecutedOnce, PrefixMigrated, ReadyIsMigrated,
      Phases, Holding, Crash, Release, Fault, database, Current

\* What a COMMIT does while the run holds the lock: one more row, executed once,
\* and no row that was there changes.
LEMMA CommittedFacts ==
  ASSUME IndInv, NEW s \in Slots, pc[s] = "transaction", Committed(s)
  PROVE  /\ Current(s) \in Ids /\ ledger[Current(s)] = None
         /\ SumOf[s][Current(s)] \in Checksums
         /\ ledger' \in [Ids -> Checksums \cup {None}]
         /\ executed' \in [Ids -> Nat]
         /\ ExecutedOnce'
         /\ \A m \in Ids : ledger[m] # None => ledger'[m] = ledger[m]
         /\ ledger'[Current(s)] = SumOf[s][Current(s)]
<1>1. Current(s) \in Ids /\ ledger[Current(s)] = None
  BY CurrentId DEF IndInv, PrefixMigrated
<1>2. SumOf[s][Current(s)] \in Checksums
  BY <1>1, SlotAssumption
<1>3. /\ ledger' \in [Ids -> Checksums \cup {None}]
      /\ \A m \in Ids : ledger[m] # None => ledger'[m] = ledger[m]
      /\ ledger'[Current(s)] = SumOf[s][Current(s)]
  BY <1>1, <1>2 DEF IndInv, TypeOK, Committed
<1>4. executed[Current(s)] = 0
  BY <1>1 DEF IndInv, ExecutedOnce
<1>5. executed' \in [Ids -> Nat]
  BY <1>1 DEF IndInv, TypeOK, Committed
<1>6. ExecutedOnce'
  <2> SUFFICES ASSUME NEW m \in Ids
               PROVE  executed'[m] = IF ledger'[m] = None THEN 0 ELSE 1
    BY DEF ExecutedOnce
  <2>1. CASE m = Current(s)
    BY <2>1, <1>1, <1>2, <1>4, NoneAssumption DEF IndInv, TypeOK, Committed
  <2>2. CASE m # Current(s)
    BY <2>2, <1>1 DEF IndInv, TypeOK, ExecutedOnce, Committed
  <2> QED BY <2>1, <2>2
<1> QED BY <1>1, <1>2, <1>3, <1>5, <1>6

\* Rows that are there stay, so what a service has been told stays true.
LEMMA RowsStay ==
  ASSUME TypeOK, \A m \in Ids : ledger[m] # None => ledger'[m] = ledger[m],
         NEW s \in Slots, NEW i \in 1..Len(Steps[s]),
         ledger[Steps[s][i]] = SumOf[s][Steps[s][i]]
  PROVE  ledger'[Steps[s][i]] = SumOf[s][Steps[s][i]]
<1>1. Steps[s][i] \in Ids /\ SumOf[s][Steps[s][i]] # None
  BY SlotAssumption, NoneAssumption
<1> QED BY <1>1

\* A COMMIT that returns: the run knows of the row it wrote.
LEMMA CommitInv == ASSUME IndInv, NEW s \in Slots, Commit(s) PROVE IndInv'
<1>1. /\ Current(s) \in Ids /\ ledger[Current(s)] = None
      /\ SumOf[s][Current(s)] \in Checksums
      /\ ledger' \in [Ids -> Checksums \cup {None}]
      /\ executed' \in [Ids -> Nat]
      /\ ExecutedOnce'
      /\ \A m \in Ids : ledger[m] # None => ledger'[m] = ledger[m]
      /\ ledger'[Current(s)] = SumOf[s][Current(s)]
  BY CommittedFacts DEF Commit
<1>2. /\ next[s] \in 1..Len(Steps[s]) /\ Len(Steps[s]) \in Nat
      /\ Current(s) = Steps[s][next[s]]
  BY CurrentId, SlotAssumption DEF IndInv, PrefixMigrated, Commit
<1>3. \A d \in Slots \ {s} : pc[d] \notin Holding
  BY Alone DEF IndInv, Commit, Holding
<1>4. TypeOK'
  BY <1>1 DEF IndInv, TypeOK, Commit, Phases
<1>5. LockHeld'
  BY DEF IndInv, TypeOK, LockHeld, Commit, Holding
<1>6. LedgerKnown'
  <2>1. applied[s] = ledger
    BY DEF IndInv, LedgerKnown, Commit
  <2>2. applied'[s] = ledger'
    BY <2>1, <1>1 DEF IndInv, TypeOK, Commit, Committed
  <2> QED BY <2>2, <1>3 DEF IndInv, TypeOK, LedgerKnown, Commit, Holding
<1>7. PrefixMigrated'
  <2> SUFFICES ASSUME NEW d \in Slots
               PROVE  /\ pc'[d] \in {"loop", "transaction"} =>
                           /\ next'[d] <= Len(Steps[d]) + 1
                           /\ \A i \in 1..(next'[d] - 1) :
                                ledger'[Steps[d][i]] = SumOf[d][Steps[d][i]]
                      /\ pc'[d] = "transaction" =>
                           next'[d] <= Len(Steps[d]) /\ ledger'[Current(d)'] = None
                      /\ pc'[d] = "unlocking" /\ outcome'[d] = "ready" =>
                           \A i \in 1..Len(Steps[d]) :
                             ledger'[Steps[d][i]] = SumOf[d][Steps[d][i]]
    BY DEF PrefixMigrated
  <2>1. CASE d # s
    BY <2>1, <1>3 DEF IndInv, TypeOK, Commit, Holding
  <2>2. CASE d = s
    <3>1. /\ pc'[s] = "loop" /\ next'[s] = next[s] + 1
      BY DEF IndInv, TypeOK, Commit
    <3>2. \A i \in 1..(next[s] - 1) :
            i \in 1..Len(Steps[s]) /\ ledger[Steps[s][i]] = SumOf[s][Steps[s][i]]
      BY <1>2 DEF IndInv, PrefixMigrated, Commit
    <3>3. \A i \in 1..(next[s] - 1) : ledger'[Steps[s][i]] = SumOf[s][Steps[s][i]]
      BY <3>2, <1>1, RowsStay DEF IndInv
    <3>4. \A i \in 1..next[s] : i = next[s] \/ i \in 1..(next[s] - 1)
      BY <1>2
    <3>5. ledger'[Steps[s][next[s]]] = SumOf[s][Steps[s][next[s]]]
      BY <1>1, <1>2
    <3>6. next'[s] - 1 = next[s] /\ next'[s] <= Len(Steps[s]) + 1
      BY <3>1, <1>2
    <3>7. \A i \in 1..(next'[s] - 1) : ledger'[Steps[s][i]] = SumOf[s][Steps[s][i]]
      BY <3>3, <3>4, <3>5, <3>6
    <3> QED BY <2>2, <3>1, <3>6, <3>7
  <2> QED BY <2>1, <2>2
<1>8. ReadyIsMigrated'
  BY <1>1, RowsStay DEF IndInv, TypeOK, ReadyIsMigrated, Commit
<1> QED BY <1>1, <1>4, <1>5, <1>6, <1>7, <1>8 DEF IndInv

\* A lost connection: its COMMIT may have been executed, and the run is over.
LEMMA ConnectionLostInv == ASSUME IndInv, NEW s \in Slots, ConnectionLost(s) PROVE IndInv'
<1>1. CASE UNCHANGED database
  BY <1>1, SlotAssumption, NoneAssumption, BoundAssumption
  DEF IndInv, TypeOK, LockHeld, LedgerKnown, ExecutedOnce, PrefixMigrated, ReadyIsMigrated,
      Phases, Holding, Running, ConnectionLost, Release, Fault, database, Current
<1>2. CASE pc[s] = "transaction" /\ Committed(s)
  <2>1. /\ ledger' \in [Ids -> Checksums \cup {None}]
        /\ executed' \in [Ids -> Nat]
        /\ ExecutedOnce'
        /\ \A m \in Ids : ledger[m] # None => ledger'[m] = ledger[m]
    BY <1>2, CommittedFacts
  <2>2. \A d \in Slots \ {s} : pc[d] \notin Holding
    BY <1>2, Alone DEF IndInv, Holding
  <2>3. pc' = [pc EXCEPT ![s] = "unset"] /\ lock = s /\ lock' = None
    BY <1>2 DEF IndInv, LockHeld, Holding, ConnectionLost, Release
  <2>4. TypeOK'
    BY <2>1, <2>3, BoundAssumption DEF IndInv, TypeOK, Phases, ConnectionLost, Fault
  <2>5. LockHeld' /\ LedgerKnown' /\ PrefixMigrated'
    BY <2>2, <2>3, NoneAssumption
    DEF IndInv, TypeOK, LockHeld, LedgerKnown, PrefixMigrated, Holding
  <2>6. ReadyIsMigrated'
    BY <2>1, <2>3, RowsStay DEF IndInv, TypeOK, ReadyIsMigrated
  <2> QED BY <2>1, <2>4, <2>5, <2>6 DEF IndInv
<1> QED BY <1>1, <1>2 DEF ConnectionLost

\* Every step, a stutter included, keeps the invariant.
LEMMA NextInv == ASSUME IndInv, [Next]_vars PROVE IndInv'
<1>1. CASE UNCHANGED vars
  BY <1>1 DEF vars, client, database, IndInv, TypeOK, LockHeld, LedgerKnown, ExecutedOnce,
              PrefixMigrated, ReadyIsMigrated, Current
<1>2. ASSUME NEW s \in Slots, Ensure(s) \/ Migrate(s) \/ StatementFails(s) \/ ConnectionLost(s)
      PROVE  IndInv'
  BY <1>2, EnsureInv, LockInv, ReadLedgerInv, SkipInv, MismatchInv, ExecuteInv, CommitInv,
     CompleteInv, UnlockInv, StatementFailsInv, ConnectionLostInv DEF Migrate
<1> QED BY <1>1, <1>2, CrashInv DEF Next

\* The inductive invariant holds in every reachable state.
THEOREM Invariance == Spec => []IndInv
<1>1. Init => IndInv
  BY InitInv
<1>2. IndInv /\ [Next]_vars => IndInv'
  BY NextInv
<1> QED BY <1>1, <1>2, PTL DEF Spec

\* Migrations of all services are serialized (index.ts:100).
THEOREM Serialized == Spec => []LockHeld
<1>1. IndInv => LockHeld
  BY DEF IndInv
<1> QED BY <1>1, Invariance, PTL

\* A migration's DDL is committed once, with its ledger row (index.ts:101),
\* however often it is retried.
THEOREM Once == Spec => []ExecutedOnce
<1>1. IndInv => ExecutedOnce
  BY DEF IndInv
<1> QED BY <1>1, Invariance, PTL

\* A service that goes on has the schema its code was written for.
THEOREM Migrated == Spec => []ReadyIsMigrated
<1>1. IndInv => ReadyIsMigrated
  BY DEF IndInv
<1> QED BY <1>1, Invariance, PTL

\* A COMMIT is an atomic step of SchemaLedger.
LEMMA CommittedApplies ==
  ASSUME IndInv, NEW s \in Slots, pc[s] = "transaction", Committed(s)
  PROVE  Promise!Next
<1>1. /\ Current(s) \in Ids /\ ledger[Current(s)] = None
      /\ SumOf[s][Current(s)] \in Checksums
  BY CommittedFacts
<1>2. Promise!Apply(Current(s), SumOf[s][Current(s)])
  BY <1>1 DEF Committed, Promise!Apply
<1> QED BY <1>1, <1>2 DEF Promise!Next

\* Every step of the runs is a step of SchemaLedger or leaves the database alone.
LEMMA StepSimulation ==
  ASSUME IndInv, [Next]_vars PROVE [Promise!Next]_<<ledger, executed>>
<1>1. CASE UNCHANGED vars
  BY <1>1 DEF vars, database
<1>2. ASSUME NEW s \in Slots, Ensure(s) \/ Migrate(s) \/ StatementFails(s)
      PROVE  [Promise!Next]_<<ledger, executed>>
  BY <1>2, CommittedApplies
  DEF Ensure, Migrate, Lock, ReadLedger, Skip, Mismatch, Execute, Commit, Complete, Unlock,
      StatementFails, database
<1>3. ASSUME NEW s \in Slots, ConnectionLost(s)
      PROVE  [Promise!Next]_<<ledger, executed>>
  BY <1>3, CommittedApplies DEF ConnectionLost, database
<1>4. ASSUME NEW p \in Processes, Crash(p)
      PROVE  [Promise!Next]_<<ledger, executed>>
  BY <1>4 DEF Crash, database
<1> QED BY <1>1, <1>2, <1>3, <1>4 DEF Next

\* The runs of all services implement SchemaLedger (migrations.ts:108: "Each
\* migration and its ledger row commit atomically").
THEOREM Refinement == Spec => KeepsLedger
<1>1. Init => Promise!Init
  BY DEF Init, Promise!Init
<1>2. IndInv /\ [Next]_vars => [Promise!Next]_<<ledger, executed>>
  BY StepSimulation
<1> QED BY <1>1, <1>2, Invariance, PTL DEF Spec, KeepsLedger, Promise!Spec
=============================================================================
