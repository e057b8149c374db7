---------------------------------- MODULE Corpus ----------------------------------
(***************************************************************************)
(* What the loops of explorer-api that fill the corpus share: the table of   *)
(* the blocks that have been inspected, and the process they run in, which   *)
(* ends when a query rejects and nobody handles it (Backfill, FillWorker).   *)
(***************************************************************************)
CONSTANTS
  MaxFailures,    \* bound: how many inspections fail
  MaxDbErrors     \* bound: how many queries of the table reject

VARIABLES
  covered,        \* rows of the table blocks
  alive,          \* no rejection has gone unhandled
  failures, dbErrors
===================================================================================
