------------------------------- MODULE SchemaLedger -------------------------------
(***************************************************************************)
(* What runMigrations promises to whoever looks at the database: a          *)
(* migration's DDL and its ledger row commit in one step, at most once, and  *)
(* neither is changed or taken back afterwards.                              *)
(***************************************************************************)
EXTENDS Naturals

CONSTANTS Ids, Checksums, None

VARIABLES ledger, executed

Init ==
  /\ ledger = [m \in Ids |-> None]
  /\ executed = [m \in Ids |-> 0]

Apply(m, sum) ==
  /\ ledger[m] = None
  /\ ledger' = [ledger EXCEPT ![m] = sum]
  /\ executed' = [executed EXCEPT ![m] = @ + 1]

Next == \E m \in Ids, sum \in Checksums : Apply(m, sum)

Spec == Init /\ [][Next]_<<ledger, executed>>
=============================================================================
