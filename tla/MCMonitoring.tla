---------------------------- MODULE MCMonitoring ----------------------------
(* One case of one user, with the blocks and alerts the cfg gives it.       *)
EXTENDS Monitoring

CONSTANTS c1, alice

MCBlockCase == [b \in Blocks |-> c1]
MCAlertCase == [a \in Alerts |-> c1]
MCOwner == [c \in {c1} |-> alice]

(* What closeCase really passes: UserID is not set *)
Unset == [c \in {c1} |-> NoUser]
Bound == MCOwner
=============================================================================
