---------------------------- MODULE MCScheduler ----------------------------
(* Two stops against three loops, with commands enough to start, fail, resume *)
(* and start again around them.                                            *)
EXTENDS Scheduler
=============================================================================
