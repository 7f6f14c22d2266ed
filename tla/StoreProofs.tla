----------------------------- MODULE StoreProofs -----------------------------
(***************************************************************************)
(* What the steps of the scheduler and of the API server keep, for every   *)
(* set of cases, blocks, alerts, users, callers and requests.  The modules *)
(* that compose them cite these lemmas.                                    *)
(***************************************************************************)
EXTENDS SchedulerManager, CaseAPI, TLAPS

(* sm.mu is held by the caller that is between its lock and its unlock.     *)
MutexHeld ==
  \A p \in Callers : call[p] \in {"locked", "read"} <=> mu = p

-----------------------------------------------------------------------------
(* The statements keep the types of the tables. *)

LEMMA UpdateCaseStatusType ==
  ASSUME StoreTypeOK, NEW c \in Cases, NEW s \in ClosedStatus, NEW r \in Reason,
         UpdateCaseStatus(c, s, r)
  PROVE  StoreTypeOK'
BY DEF StoreTypeOK, UpdateCaseStatus, CaseStatus

LEMMA CreateTimelineEventType ==
  ASSUME StoreTypeOK, NEW x \in Author, CreateTimelineEvent(x)
  PROVE  StoreTypeOK'
BY DEF StoreTypeOK, CreateTimelineEvent, Many

LEMMA UpdateMonitorBlocksEnabledByCaseType ==
  ASSUME StoreTypeOK, NEW c \in Cases, NEW on \in BOOLEAN,
         UpdateMonitorBlocksEnabledByCase(c, on)
  PROVE  StoreTypeOK'
BY DEF StoreTypeOK, UpdateMonitorBlocksEnabledByCase

LEMMA UpdateMonitorBlockEnabledType ==
  ASSUME StoreTypeOK, NEW b \in Blocks, NEW on \in BOOLEAN,
         UpdateMonitorBlockEnabled(b, on)
  PROVE  StoreTypeOK'
BY DEF StoreTypeOK, UpdateMonitorBlockEnabled

LEMMA UpdateCaseDSLPollingEnabledType ==
  ASSUME StoreTypeOK, NEW c \in Cases, NEW on \in BOOLEAN,
         UpdateCaseDSLPollingEnabled(c, on)
  PROVE  StoreTypeOK'
BY DEF StoreTypeOK, UpdateCaseDSLPollingEnabled

LEMMA UpdateMonitorBlockLastExecutedType ==
  ASSUME StoreTypeOK, NEW b \in Blocks, UpdateMonitorBlockLastExecuted(b)
  PROVE  StoreTypeOK'
BY DEF StoreTypeOK, UpdateMonitorBlockLastExecuted, Exists

LEMMA SetAlertType ==
  ASSUME StoreTypeOK, NEW a \in Alerts, NEW s \in AlertState, SetAlert(a, s)
  PROVE  StoreTypeOK'
BY DEF StoreTypeOK, SetAlert

LEMMA DeleteCaseRowType ==
  ASSUME StoreTypeOK, NEW c \in Cases, DeleteCaseRow(c)
  PROVE  StoreTypeOK'
BY DEF StoreTypeOK, DeleteCaseRow, Reason, AlertState, Many

-----------------------------------------------------------------------------
(* The requests keep the types. *)

LEMMA CloseType ==
  ASSUME StoreTypeOK, APITypeOK,
         NEW u \in Users, NEW c \in Cases, NEW s \in ClosedStatus, Close(u, c, s)
  PROVE  StoreTypeOK' /\ APITypeOK'
<1>1. StoreTypeOK'
  BY UpdateCaseStatusType DEF Close, Reason
<1> QED
  BY <1>1 DEF Close, APITypeOK

LEMMA DeleteType ==
  ASSUME StoreTypeOK, APITypeOK, NEW u \in Users, NEW c \in Cases, Delete(u, c)
  PROVE  StoreTypeOK' /\ APITypeOK'
BY DeleteCaseRowType DEF Delete, APITypeOK

LEMMA ToggleMonitorBlockType ==
  ASSUME StoreTypeOK, APITypeOK,
         NEW b \in Blocks, NEW on \in BOOLEAN, ToggleMonitorBlock(b, on)
  PROVE  StoreTypeOK' /\ APITypeOK'
BY UpdateMonitorBlockEnabledType DEF ToggleMonitorBlock, APITypeOK

LEMMA ToggleCaseMonitoringType ==
  ASSUME StoreTypeOK, APITypeOK,
         NEW r \in Requests, NEW c \in Cases, NEW on \in BOOLEAN, NEW keep \in BOOLEAN,
         ToggleCaseMonitoring(r, c, on, keep)
  PROVE  StoreTypeOK' /\ APITypeOK'
<1>1. StoreTypeOK'
  BY UpdateMonitorBlocksEnabledByCaseType DEF ToggleCaseMonitoring
<1>2. APITypeOK'
  BY DEF ToggleCaseMonitoring, APITypeOK
<1> QED
  BY <1>1, <1>2

LEMMA ToggleCasePollingType ==
  ASSUME StoreTypeOK, APITypeOK, NEW r \in Requests, ToggleCasePolling(r)
  PROVE  StoreTypeOK' /\ APITypeOK'
<1>1. PICK c \in toggling[r].toggled : UpdateCaseDSLPollingEnabled(c, toggling[r].on)
  BY DEF ToggleCasePolling
<1>2. c \in Cases /\ toggling[r].on \in BOOLEAN
  BY <1>1 DEF APITypeOK
<1>3. StoreTypeOK'
  BY <1>1, <1>2, UpdateCaseDSLPollingEnabledType
<1>4. APITypeOK'
  BY DEF ToggleCasePolling, APITypeOK, NoToggle
<1> QED
  BY <1>3, <1>4

LEMMA ToggleCasePollingFailsType ==
  ASSUME StoreTypeOK, APITypeOK, NEW r \in Requests, ToggleCasePollingFails(r)
  PROVE  StoreTypeOK' /\ APITypeOK'
BY DEF ToggleCasePollingFails, StoreTypeOK, storeVars, APITypeOK, NoToggle

LEMMA CreateAlertType ==
  ASSUME StoreTypeOK, APITypeOK, NEW u \in Users, NEW a \in Alerts, CreateAlert(u, a)
  PROVE  StoreTypeOK' /\ APITypeOK'
BY SetAlertType DEF CreateAlert, AlertState, APITypeOK

LEMMA DeleteAlertType ==
  ASSUME StoreTypeOK, APITypeOK, NEW u \in Users, NEW a \in Alerts, DeleteAlert(u, a)
  PROVE  StoreTypeOK' /\ APITypeOK'
BY SetAlertType DEF DeleteAlert, AlertState, APITypeOK

-----------------------------------------------------------------------------
(* The steps of SyncMonitorSchedules and of the worker process keep the     *)
(* types, and keep sm.mu with its holder.                                   *)

SchedulerInv == SchedulerTypeOK /\ MutexHeld

LEMMA SchedulerInitInv == SchedulerInit => SchedulerInv
BY SchedulerAssumption
DEF SchedulerInit, SchedulerInv, SchedulerTypeOK, MutexHeld, NoScheduler, Scheduler, Callers

LEMMA CallSyncInv ==
  ASSUME SchedulerInv, NEW p \in Callers, CallSync(p),
         UNCHANGED <<mu, rows, current, strays>>,
         proc' \in {"down", "starting", "running", "stopping"}
  PROVE  SchedulerInv'
<1>1. SchedulerTypeOK'
  BY DEF SchedulerInv, SchedulerTypeOK, CallSync
<1>2. MutexHeld'
  BY DEF SchedulerInv, SchedulerTypeOK, MutexHeld, CallSync
<1> QED
  BY <1>1, <1>2 DEF SchedulerInv

LEMMA LockInv ==
  ASSUME SchedulerInv, NEW p \in Callers, Lock(p)
  PROVE  SchedulerInv'
<1>1. SchedulerTypeOK'
  BY DEF SchedulerInv, SchedulerTypeOK, Lock
<1>2. MutexHeld'
  BY SchedulerAssumption DEF SchedulerInv, SchedulerTypeOK, MutexHeld, Lock
<1> QED
  BY <1>1, <1>2 DEF SchedulerInv

LEMMA QueryInv ==
  ASSUME SchedulerInv, NEW p \in Callers, Query(p)
  PROVE  SchedulerInv'
<1>1. SchedulerTypeOK'
  BY DEF SchedulerInv, SchedulerTypeOK, Query, ListActiveMonitorBlocks
<1>2. MutexHeld'
  BY DEF SchedulerInv, SchedulerTypeOK, MutexHeld, Query
<1> QED
  BY <1>1, <1>2 DEF SchedulerInv

LEMMA QueryFailsInv ==
  ASSUME SchedulerInv, NEW p \in Callers, QueryFails(p)
  PROVE  SchedulerInv'
<1>1. SchedulerTypeOK'
  BY DEF SchedulerInv, SchedulerTypeOK, QueryFails
<1>2. MutexHeld'
  BY SchedulerAssumption DEF SchedulerInv, SchedulerTypeOK, MutexHeld, QueryFails
<1> QED
  BY <1>1, <1>2 DEF SchedulerInv

LEMMA InstallInv ==
  ASSUME SchedulerInv, NEW p \in Callers, Install(p)
  PROVE  SchedulerInv'
<1>1. current' \in Scheduler({"none", "new", "active"})
  BY DEF SchedulerInv, SchedulerTypeOK, Install, Scheduler, Registered
<1>2. strays' \in SUBSET Scheduler({"new", "active"})
  BY DEF SchedulerInv, SchedulerTypeOK, Install, Scheduler
<1>3. SchedulerTypeOK'
  BY <1>1, <1>2 DEF SchedulerInv, SchedulerTypeOK, Install
<1>4. MutexHeld'
  BY SchedulerAssumption DEF SchedulerInv, SchedulerTypeOK, MutexHeld, Install
<1> QED
  BY <1>3, <1>4 DEF SchedulerInv

LEMMA RunCurrentInv ==
  ASSUME SchedulerInv, RunCurrent
  PROVE  SchedulerInv' /\ current'.entries = current.entries
BY DEF SchedulerInv, SchedulerTypeOK, MutexHeld, RunCurrent, Scheduler

LEMMA RunStrayInv ==
  ASSUME SchedulerInv, NEW s \in strays, RunStray(s)
  PROVE  SchedulerInv'
<1>1. strays' \in SUBSET Scheduler({"new", "active"})
  BY DEF SchedulerInv, SchedulerTypeOK, RunStray, Scheduler
<1> QED
  BY <1>1 DEF SchedulerInv, SchedulerTypeOK, MutexHeld, RunStray

LEMMA SignalInv ==
  ASSUME SchedulerInv, Signal
  PROVE  SchedulerInv'
BY DEF SchedulerInv, SchedulerTypeOK, MutexHeld, Signal

LEMMA ProcessGoneInv ==
  ASSUME SchedulerInv, ProcessGone
  PROVE  SchedulerInv'
<1>1. SchedulerTypeOK'
  BY DEF SchedulerInv, SchedulerTypeOK, ProcessGone, NoScheduler, Scheduler
<1>2. MutexHeld'
  BY SchedulerAssumption DEF SchedulerInv, SchedulerTypeOK, MutexHeld, ProcessGone
<1> QED
  BY <1>1, <1>2 DEF SchedulerInv

(* Nobody but the caller that read the rows swaps the schedulers.           *)
LEMMA OnlyHolderInstalls ==
  ASSUME SchedulerInv, NEW p \in Callers, NEW q \in Callers,
         call[p] = "read", Install(q)
  PROVE  call'[p] = "idle"
<1>1. mu = p /\ mu = q
  BY DEF SchedulerInv, MutexHeld, Install
<1> QED
  BY <1>1 DEF SchedulerInv, SchedulerTypeOK, Install
=============================================================================
