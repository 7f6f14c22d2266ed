------------------------------ MODULE CaseStore ------------------------------
(***************************************************************************)
(* The PostgreSQL rows that the monitoring engine and the API server       *)
(* share: cases, monitor_blocks, price_alerts and timeline_events, and the *)
(* SQL statements that read and write them.  No caller opens a transaction *)
(* around two of these statements, so each is one atomic step.             *)
(*                                                                         *)
(* A deleted case takes its rows of the other tables with it (ON DELETE    *)
(* CASCADE); "DELETED" stands for a row that is no longer there.  Of the   *)
(* timeline only the number of entries per author is kept, and counted as  *)
(* none, one or many.                                                      *)
(***************************************************************************)
EXTENDS Naturals

CONSTANTS
  Cases, Blocks, Alerts,   (* ids of rows                                  *)
  BlockCase,               (* monitor_blocks.case_id                       *)
  AlertCase,               (* price_alerts.case_id                         *)
  Users, Owner,            (* cases.user_id                                *)
  NoUser                   (* a NULL parameter: user_id = NULL is no match *)

ASSUME StoreAssumption ==
  /\ BlockCase \in [Blocks -> Cases]
  /\ AlertCase \in [Alerts -> Cases]
  /\ Owner \in [Cases -> Users]
  /\ NoUser \notin Users
  /\ Cases \cap Blocks = {} /\ Cases \cap Alerts = {} /\ Blocks \cap Alerts = {}

VARIABLES
  caseStatus,     (* cases.status                                          *)
  closedReason,   (* cases.closed_reason: who wrote it last                *)
  dslPolling,     (* cases.dsl_polling_enabled                             *)
  enabled,        (* monitor_blocks.enabled                                *)
  lastExecuted,   (* monitor_blocks.last_executed_at IS NOT NULL           *)
  alert,          (* price_alerts row: absent, untriggered, ...            *)
  timeline        (* timeline_events, by what wrote them                   *)

storeVars == <<caseStatus, closedReason, dslPolling, enabled, lastExecuted,
               alert, timeline>>

ClosedStatus == {"CLOSED_SUCCESS", "CLOSED_FAILURE"}
CaseStatus == {"LIVE"} \cup ClosedStatus
Reason == {"none", "user", "script"}
AlertState == {"absent", "untriggered", "triggered", "DELETED"}
Many == 2

(* An entry is written by the closing of a case, by an alert or by an agent *)
Author == Cases \cup Alerts \cup Blocks
CaseOf(x) == IF x \in Blocks THEN BlockCase[x]
             ELSE IF x \in Alerts THEN AlertCase[x] ELSE x

StoreTypeOK ==
  /\ caseStatus \in [Cases -> CaseStatus \cup {"DELETED"}]
  /\ closedReason \in [Cases -> Reason]
  /\ dslPolling \in [Cases -> BOOLEAN]
  /\ enabled \in [Blocks -> BOOLEAN]
  /\ lastExecuted \in [Blocks -> BOOLEAN]
  /\ alert \in [Alerts -> AlertState]
  /\ timeline \in [Author -> 0..Many]

StoreInit ==
  /\ caseStatus = [c \in Cases |-> "LIVE"]
  /\ closedReason = [c \in Cases |-> "none"]
  /\ dslPolling = [c \in Cases |-> TRUE]
  /\ enabled \in [Blocks -> BOOLEAN]
  /\ lastExecuted = [b \in Blocks |-> FALSE]
  /\ alert = [a \in Alerts |-> "absent"]
  /\ timeline = [x \in Author |-> 0]

Exists(c) == caseStatus[c] # "DELETED"

-----------------------------------------------------------------------------
(* Queries *)

(* Mutant: the status of the case is not in the WHERE clause.               *)
ListEnabledMonitorBlocks == {b \in Blocks : enabled[b]}

ListActiveMonitorBlocks ==
  {b \in Blocks : enabled[b] /\ caseStatus[BlockCase[b]] = "LIVE"}

(* Mutant: dsl_polling_enabled is not in the WHERE clause.                  *)
ListLiveCasesPausedToo == {c \in Cases : caseStatus[c] = "LIVE"}

ListLiveCases == {c \in Cases : caseStatus[c] = "LIVE" /\ dslPolling[c]}

ListUntriggeredAlertsByCase(c) ==
  {a \in Alerts : AlertCase[a] = c /\ alert[a] = "untriggered"}

-----------------------------------------------------------------------------
(* Statements.  One that is :one in sqlc needs a matching row, or the       *)
(* caller gets ErrNoRows: its matching condition is a guard of its own.     *)

(* WHERE id = $1 AND user_id = $5 *)
MatchesUpdateCaseStatus(c, user) == Exists(c) /\ user = Owner[c]

(* Mutant: the two text parameters are swapped.                             *)
UpdateCaseStatusSwapped(c, status, reason) ==
  /\ caseStatus' = [caseStatus EXCEPT ![c] = reason]
  /\ closedReason' = [closedReason EXCEPT ![c] = status]
  /\ UNCHANGED <<dslPolling, enabled, lastExecuted, alert, timeline>>

UpdateCaseStatus(c, status, reason) ==
  /\ caseStatus' = [caseStatus EXCEPT ![c] = status]
  /\ closedReason' = [closedReason EXCEPT ![c] = reason]
  /\ UNCHANGED <<dslPolling, enabled, lastExecuted, alert, timeline>>

(* INSERT: the foreign key on cases is what can refuse it *)
CreateTimelineEvent(x) ==
  /\ timeline' = [timeline EXCEPT ![x] = IF @ < Many THEN @ + 1 ELSE @]
  /\ UNCHANGED <<caseStatus, closedReason, dslPolling, enabled, lastExecuted, alert>>

UpdateMonitorBlocksEnabledByCase(c, on) ==
  /\ enabled' = [b \in Blocks |-> IF BlockCase[b] = c /\ Exists(c)
                                  THEN on ELSE enabled[b]]
  /\ UNCHANGED <<caseStatus, closedReason, dslPolling, lastExecuted, alert, timeline>>

DisableMonitorBlocksByCase(c) == UpdateMonitorBlocksEnabledByCase(c, FALSE)

UpdateMonitorBlockEnabled(b, on) ==
  /\ enabled' = [enabled EXCEPT ![b] = IF Exists(BlockCase[b]) THEN on ELSE @]
  /\ UNCHANGED <<caseStatus, closedReason, dslPolling, lastExecuted, alert, timeline>>

UpdateCaseDSLPollingEnabled(c, on) ==
  /\ dslPolling' = [dslPolling EXCEPT ![c] = IF Exists(c) THEN on ELSE @]
  /\ UNCHANGED <<caseStatus, closedReason, enabled, lastExecuted, alert, timeline>>

UpdateMonitorBlockLastExecuted(b) ==
  /\ lastExecuted' = [lastExecuted EXCEPT ![b] = Exists(BlockCase[b])]
  /\ UNCHANGED <<caseStatus, closedReason, dslPolling, enabled, alert, timeline>>

(* WHERE id = $1: an alert that has triggered before matches again *)
MatchesTriggerPriceAlert(a) == alert[a] \in {"untriggered", "triggered"}

TriggerPriceAlert(a) ==
  /\ alert' = [alert EXCEPT ![a] = "triggered"]
  /\ UNCHANGED <<caseStatus, closedReason, dslPolling, enabled, lastExecuted, timeline>>

SetAlert(a, state) ==
  /\ alert' = [alert EXCEPT ![a] = state]
  /\ UNCHANGED <<caseStatus, closedReason, dslPolling, enabled, lastExecuted, timeline>>

DeleteCaseRow(c) ==
  /\ caseStatus' = [caseStatus EXCEPT ![c] = "DELETED"]
  /\ closedReason' = [closedReason EXCEPT ![c] = "none"]
  /\ dslPolling' = [dslPolling EXCEPT ![c] = FALSE]
  /\ enabled' = [b \in Blocks |-> enabled[b] /\ BlockCase[b] # c]
  /\ lastExecuted' = [b \in Blocks |-> lastExecuted[b] /\ BlockCase[b] # c]
  /\ alert' = [a \in Alerts |-> IF AlertCase[a] = c THEN "DELETED" ELSE alert[a]]
  /\ timeline' = [x \in Author |-> IF CaseOf(x) = c THEN 0 ELSE timeline[x]]
=============================================================================
