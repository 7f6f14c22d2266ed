------------------------------- MODULE CaseAPI -------------------------------
(***************************************************************************)
(* What the API server does to the shared rows.  It holds no scheduler     *)
(* (NewMonitoringService(pool, nil)), so no handler here syncs schedules.  *)
(* A close or a delete by somebody who does not own the case changes       *)
(* nothing; the two monitoring toggles do not look at the owner or at the  *)
(* status of the case.                                                     *)
(***************************************************************************)
EXTENDS CaseStore

CONSTANTS
  Requests   (* concurrent PATCH .../monitoring-status requests             *)

VARIABLES
  toggling   (* the second statement each of them still has to execute     *)

NoToggle == [step |-> "idle", toggled |-> {}, on |-> FALSE]
APITypeOK ==
  toggling \in [Requests -> [step : {"idle", "polling"}, toggled : SUBSET Cases,
                             on : BOOLEAN]]

APIInit == toggling = [r \in Requests |-> NoToggle]

(* POST /cases/:id/close *)
Close(user, c, status) ==
  /\ MatchesUpdateCaseStatus(c, user)
  /\ UpdateCaseStatus(c, status, "user")
  /\ UNCHANGED toggling

(* DELETE /cases/:id *)
Delete(user, c) ==
  /\ Exists(c)
  /\ user = Owner[c]
  /\ DeleteCaseRow(c)
  /\ UNCHANGED toggling

(* PATCH /cases/:id/monitors/:monitorId *)
ToggleMonitorBlock(b, on) ==
  /\ UpdateMonitorBlockEnabled(b, on)
  /\ UNCHANGED toggling

(* PATCH /cases/:id/monitoring-status, first statement: the blocks *)
ToggleCaseMonitoring(r, c, on, keepDSLPolling) ==
  /\ toggling[r].step = "idle"
  /\ UpdateMonitorBlocksEnabledByCase(c, on)
  /\ toggling' = IF on \/ ~keepDSLPolling
                 THEN [toggling EXCEPT ![r] = [step |-> "polling", toggled |-> {c},
                                               on |-> on]]
                 ELSE toggling

(* ... second statement: the polling flag *)
ToggleCasePolling(r) ==
  /\ toggling[r].step = "polling"
  /\ \E c \in toggling[r].toggled : UpdateCaseDSLPollingEnabled(c, toggling[r].on)
  /\ toggling' = [toggling EXCEPT ![r] = NoToggle]

(* ... which may fail (500) or be lost with the API server *)
ToggleCasePollingFails(r) ==
  /\ toggling[r].step = "polling"
  /\ toggling' = [toggling EXCEPT ![r] = NoToggle]
  /\ UNCHANGED storeVars

(* POST /cases/:id/alerts *)
CreateAlert(user, a) ==
  /\ Exists(AlertCase[a])
  /\ user = Owner[AlertCase[a]]
  /\ alert[a] = "absent"
  /\ SetAlert(a, "untriggered")
  /\ UNCHANGED toggling

(* DELETE /cases/:id/alerts/:alertId *)
DeleteAlert(user, a) ==
  /\ Exists(AlertCase[a])
  /\ user = Owner[AlertCase[a]]
  /\ alert[a] \in {"untriggered", "triggered"}
  /\ SetAlert(a, "DELETED")
  /\ UNCHANGED toggling
=============================================================================
