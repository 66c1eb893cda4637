------------------------------- MODULE MCCron -------------------------------
(***************************************************************************)
(* Two overlapping cron runs, started over and over.                       *)
(***************************************************************************)
EXTENDS Cron, TLC

MCQueues == <<"mail", "index">>

=============================================================================
