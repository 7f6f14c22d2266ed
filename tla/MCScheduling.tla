---------------------------- MODULE MCScheduling ----------------------------
(* One case with two monitor blocks, of which the second has a cron text    *)
(* that asynq refuses or not, and two overlapping runs of the cron job.     *)
EXTENDS Scheduling

CONSTANTS c1, b1, b2, alice

MCBlockCase == [b \in {b1, b2} |-> c1]
MCAlertCase == [a \in {} |-> c1]
MCOwner == [c \in {c1} |-> alice]
=============================================================================
