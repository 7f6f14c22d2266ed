----------------------------- MODULE Scheduling -----------------------------
(***************************************************************************)
(* The scheduler of the worker beside the API server: the worker's         *)
(* periodic sync is the only way in which a change made over HTTP reaches  *)
(* the schedules.                                                          *)
(***************************************************************************)
EXTENDS SchedulerManager, CaseAPI

vars == <<storeVars, schedVars, toggling>>

Init == StoreInit /\ SchedulerInit /\ APIInit

TypeOK == StoreTypeOK /\ SchedulerTypeOK /\ APITypeOK

SchedulerStep ==
  \/ Start
  \/ Signal
  \/ Shutdown
  \/ Crash
  \/ RunCurrent
  \/ \E s \in strays : RunStray(s)
  \/ \E p \in CronJobs : CronSync(p)
  \/ \E p \in Callers : Lock(p)
  \/ \E p \in Callers : Query(p)
  \/ \E p \in Callers : QueryFails(p)
  \/ \E p \in Callers : Install(p)

APIStep ==
  \/ \E u \in Users, c \in Cases, s \in ClosedStatus : Close(u, c, s)
  \/ \E u \in Users, c \in Cases : Delete(u, c)
  \/ \E b \in Blocks, on \in BOOLEAN : ToggleMonitorBlock(b, on)
  \/ \E r \in Requests, c \in Cases, on, keep \in BOOLEAN :
       ToggleCaseMonitoring(r, c, on, keep)
  \/ \E r \in Requests : ToggleCasePolling(r)
  \/ \E r \in Requests : ToggleCasePollingFails(r)

Next ==
  \/ SchedulerStep /\ UNCHANGED <<storeVars, toggling>>
  \/ APIStep /\ UNCHANGED schedVars

Only(A) == A /\ UNCHANGED <<storeVars, toggling>>

(* The goroutines are scheduled, a Go mutex does not starve a waiter, and a *)
(* database asked again and again answers in the end.  No fairness for the  *)
(* users, for signals and for crashes.                                      *)
Fairness ==
  /\ WF_vars(Only(Start))
  /\ WF_vars(Only(Shutdown))
  /\ WF_vars(Only(RunCurrent))
  /\ \A p \in CronJobs : WF_vars(Only(CronSync(p)))
  /\ \A p \in Callers :
       /\ SF_vars(Only(Lock(p)))
       /\ SF_vars(Only(Query(p)))
       /\ WF_vars(Only(Install(p)))

Spec == Init /\ [][Next]_vars /\ Fairness

-----------------------------------------------------------------------------
(* Properties *)

(* A sync that has read the rows is not overtaken: while it carries them,   *)
(* nobody else swaps the schedules, so an older read never replaces a newer *)
(* one.  (The sm.mu of SyncMonitorSchedules, held from query to swap.)      *)
NoOvertaking ==
  [][\A p \in Callers :
       call[p] = "read" /\ call'[p] = "read" => current'.entries = current.entries]_vars

(* Every caller gets through SyncMonitorSchedules: the mutex is released on *)
(* each of its returns, the failed query included.                          *)
SyncReturns ==
  \A p \in Callers : call[p] = "waiting" ~> call[p] = "idle"

(* Once the active rows and the worker stay as they are, the schedules      *)
(* become exactly those rows, without the ones whose cron is refused, and   *)
(* stay so: the "safety net" promise of StartScheduleSync.                  *)
SyncCatchesUp ==
  /\ <>[](proc = "running")
  /\ <>[][ListActiveMonitorBlocks' = ListActiveMonitorBlocks]_vars
  => <>[](current.entries = Registered(ListActiveMonitorBlocks))

(* At most one scheduler is running: "It shuts down the old scheduler,      *)
(* builds a new one, and starts it in a goroutine" (scheduler.go).          *)
AtMostOneSchedulerRuns ==
  \A s, t \in ActiveSchedulers : s = t
=============================================================================
