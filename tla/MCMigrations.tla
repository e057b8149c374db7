------------------------------- MODULE MCMigrations -------------------------------
(***************************************************************************)
(* TLC instance of Migrations: one process with two promises over the same  *)
(* migrations, one whose code has another checksum for the last of them, and *)
(* one that needs the last only.                                             *)
(***************************************************************************)
EXTENDS Migrations

CONSTANTS all, app, newer, evidence, explorer, agent, trace, m1, m2, old, new

MCProcessOf ==
  [s \in Slots |-> CASE s \in {all, app} -> explorer [] s = newer -> agent [] OTHER -> trace]
MCSteps ==
  [s \in Slots |-> CASE s \in {all, newer} -> <<m1, m2>>
                     [] s = app -> <<m1>>
                     [] OTHER -> <<m2>>]
MCSumOf == [s \in Slots |-> [m \in Ids |-> IF s = newer /\ m = m2 THEN new ELSE old]]
=============================================================================
