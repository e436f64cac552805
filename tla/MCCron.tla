------------------------------- MODULE MCCron -------------------------------
(* Small instances of Cron for TLC.                                        *)
EXTENDS Cron

Backoffs == <<1, 3>>
=============================================================================
