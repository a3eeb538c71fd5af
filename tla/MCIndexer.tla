----------------------------- MODULE MCIndexer ------------------------------
(***************************************************************************)
(* One cron and one daemon on a parent chain of three blocks, one of them  *)
(* unconfirmed, indexed one block at a time.                               *)
(***************************************************************************)
EXTENDS Indexer

MCMixes == {{"quiet", "call", "settled"}, {"quiet", "paused"}}
=============================================================================
