----------------------------- MODULE Monitoring -----------------------------
(***************************************************************************)
(* The monitoring engine: the worker process (scheduler, poller, lifecycle *)
(* and agent handlers, asynq's redelivery) and the API server over the     *)
(* same database.                                                          *)
(***************************************************************************)
EXTENDS DSLPoller, AgentHandler, CaseAPI

vars == <<storeVars, schedVars, lifecycle, archived, poll, agent, toggling>>

lifecycleVars == <<lifecycle, archived>>

Init ==
  /\ StoreInit
  /\ SchedulerInit
  /\ LifecycleInit
  /\ PollerInit
  /\ AgentInit
  /\ APIInit

TypeOK ==
  /\ StoreTypeOK
  /\ SchedulerTypeOK
  /\ LifecycleTypeOK
  /\ PollerTypeOK
  /\ AgentTypeOK
  /\ APITypeOK

-----------------------------------------------------------------------------
(* The worker process.  Tasks stay in Redis when it ends. *)

Background ==
  \/ Start
  \/ Signal
  \/ RunCurrent
  \/ \E s \in strays : RunStray(s)
  \/ \E p \in CronJobs : CronSync(p)
  \/ \E p \in Callers : Lock(p)
  \/ \E p \in Callers : Query(p)
  \/ \E p \in Callers \ LifecycleSlots : Install(p)
  \/ \E p \in Callers \ LifecycleSlots : QueryFails(p)

CrashWorker == Crash /\ LifecycleCrash /\ PollerCrash /\ AgentCrash

StopWorker == Shutdown /\ LifecycleShutdown /\ PollerShutdown /\ AgentShutdown

LifecycleStep(i) ==
  \/ StartHandler(i)
  \/ CloseUpdatesStatus(i)
  \/ TriggerUpdatesAlert(i)
  \/ InsertsEvent(i)
  \/ CloseDisablesBlocks(i)
  \/ CloseSynced(i)
  \/ CloseSyncFails(i)
  \/ Acknowledge(i)
  \/ StatementFails(i)

PollStep(i) ==
  \/ StartPoll(i)
  \/ ListCases(i)
  \/ ListCasesFails(i)
  \/ FetchPrices(i)
  \/ \E c \in Cases : SuccessReached(i, c)
  \/ \E c \in Cases : FailureReached(i, c)
  \/ \E c \in Cases : ReadAlerts(i, c)
  \/ \E c \in Cases : JudgeFails(i, c)
  \/ \E a \in Alerts : AlertReached(i, a)
  \/ FinishPoll(i)

AgentStep(i) ==
  \/ StartAgent(i)
  \/ ReadSnapshot(i)
  \/ InsertResult(i)
  \/ StampBlock(i)
  \/ AcknowledgeAgent(i)
  \/ AgentStatementFails(i)

APIStep ==
  \/ \E u \in Users, c \in Cases, s \in ClosedStatus : Close(u, c, s)
  \/ \E u \in Users, c \in Cases : Delete(u, c)
  \/ \E b \in Blocks, on \in BOOLEAN : ToggleMonitorBlock(b, on)
  \/ \E r \in Requests, c \in Cases, on, keep \in BOOLEAN :
       ToggleCaseMonitoring(r, c, on, keep)
  \/ \E r \in Requests : ToggleCasePolling(r)
  \/ \E r \in Requests : ToggleCasePollingFails(r)
  \/ \E u \in Users, a \in Alerts : CreateAlert(u, a)
  \/ \E u \in Users, a \in Alerts : DeleteAlert(u, a)

Next ==
  \/ Background /\ UNCHANGED <<storeVars, lifecycleVars, poll, agent, toggling>>
  \/ CrashWorker /\ UNCHANGED <<storeVars, toggling>>
  \/ StopWorker /\ UNCHANGED <<storeVars, toggling>>
  \/ \E i \in LifecycleSlots : LifecycleStep(i) /\ UNCHANGED <<poll, agent, toggling>>
  \/ \E i \in PollSlots : EnqueuePoll(i) /\ UNCHANGED <<agent, toggling>>
  \/ \E i \in PollSlots : PollStep(i) /\ UNCHANGED <<agent, toggling>>
  \/ \E i \in AgentSlots, s \in ActiveSchedulers, b \in Blocks :
       EnqueueAgent(i, s, b) /\ UNCHANGED <<lifecycleVars, poll, toggling>>
  \/ \E i \in AgentSlots : AgentStep(i) /\ UNCHANGED <<lifecycleVars, poll, toggling>>
  \/ APIStep /\ UNCHANGED <<schedVars, lifecycleVars, poll, agent>>

Spec == Init /\ [][Next]_vars

-----------------------------------------------------------------------------
(* Fairness.  A goroutine that can run does, a task in Redis is picked up by *)
(* a running worker, and its handler goes on or fails.  The query of a sync  *)
(* that is made again every five minutes works in the end.  Nothing is       *)
(* assumed of users, signals, crashes, prices and the blocks' cron times.    *)

Quiet(A) == A /\ UNCHANGED <<storeVars, lifecycleVars, poll, agent, toggling>>

CronFairness == \A p \in CronJobs : WF_vars(Quiet(CronSync(p)))

TaskFairness ==
  /\ WF_vars(Quiet(Start))
  /\ WF_vars(Quiet(RunCurrent))
  /\ \A p \in Callers : SF_vars(Quiet(Lock(p))) /\ SF_vars(Quiet(Query(p)))
  /\ \A p \in Callers \ LifecycleSlots : WF_vars(Quiet(Install(p)))
  /\ \A i \in LifecycleSlots : WF_vars(LifecycleStep(i) /\ UNCHANGED <<poll, agent, toggling>>)
  /\ \A i \in PollSlots : WF_vars(PollStep(i) /\ UNCHANGED <<agent, toggling>>)
  /\ \A i \in AgentSlots : WF_vars(AgentStep(i) /\ UNCHANGED <<lifecycleVars, poll, toggling>>)

FairSpec == Spec /\ CronFairness /\ TaskFairness

-----------------------------------------------------------------------------
(* Properties *)

InFlight(job) == \E i \in LifecycleSlots : job \in lifecycle[i].jobs
CloseJobsOf(c) == {job \in CloseJob : job.subject = c}
Trigger(a) == [action |-> "TRIGGER_ALERT", subject |-> a]

(* triggerAlert: the timeline reports an alert only after the alert's row    *)
(* says so, whatever is retried, duplicated or cut off between the two.      *)
AlertEventMeansTriggered ==
  \A a \in Alerts : timeline[a] > 0 => alert[a] \in {"triggered", "DELETED"}

(* triggerAlert: an alert that was marked as triggered and is not in the     *)
(* timeline is still owed its entry by a task, or asynq has archived one.    *)
TriggeredAlertAccounted ==
  \A a \in Alerts :
    alert[a] = "triggered" /\ timeline[a] = 0
      => InFlight(Trigger(a)) \/ Trigger(a) \in archived

(* ... and while a worker stays up, the entry is written in the end, unless  *)
(* the alert is deleted or the task archived: what crashed, failed or was    *)
(* put back before that has lost no entry.                                   *)
TriggeredAlertGetsEvent ==
  <>[](proc = "running") =>
    \A a \in Alerts :
      alert[a] = "triggered"
        ~> timeline[a] > 0 \/ alert[a] = "DELETED" \/ Trigger(a) \in archived

(* closeCase: the timeline reports a close by script only of a closed case.  *)
CloseEventMeansClosed ==
  \A c \in Cases : timeline[c] > 0 => caseStatus[c] \in ClosedStatus

(* closeCase: a case whose status a script has written is in the timeline,   *)
(* or a task still owes the entry, or asynq has archived one that did.       *)
ScriptCloseAccounted ==
  \A c \in Cases :
    closedReason[c] = "script" /\ timeline[c] = 0
      => \E job \in CloseJobsOf(c) : InFlight(job) \/ job \in archived

(* closeCase: once the tasks that closed a case are through, the worker's    *)
(* scheduler holds no block of it, though a sync that began before the close *)
(* may have been under way and a user may switch the blocks on again.        *)
ClosedCaseUnscheduled ==
  \A c \in Cases :
    /\ closedReason[c] = "script"
    /\ \A job \in CloseJobsOf(c) : ~InFlight(job) /\ job \notin archived
    => \A b \in current.entries : BlockCase[b] # c

(* The agents of a block that is switched off, or whose case is no longer    *)
(* live, fall silent: the periodic sync drops the block and the tasks that   *)
(* were enqueued before that run out.  The stray schedulers are assumed      *)
(* away: one that holds the block would go on until the worker ends.         *)
InactiveBlockFallsSilent ==
  \A b \in Blocks :
    <>[](/\ proc = "running"
         /\ strays = {}
         /\ ~(enabled[b] /\ caseStatus[BlockCase[b]] = "LIVE"))
      => <>[](\A i \in AgentSlots : b \notin agent[i].blocks)

(* A case whose polling was switched off is let go: the cycle that listed it *)
(* before ends, and the tasks this cycle enqueued run out.                   *)
PausedCaseFallsSilent ==
  \A c \in Cases :
    <>[](proc = "running" /\ ~dslPolling[c])
      => <>[](/\ \A i \in PollSlots : c \notin poll[i].live
              /\ \A i \in LifecycleSlots :
                   \A job \in lifecycle[i].jobs : CaseOf(job.subject) # c)

(* HandleLifecycle: a close task that asynq has given up on found the case   *)
(* gone, or had closed it before it failed ("CLOSE_SUCCESS: the case changes *)
(* state", plan-06).                                                         *)
CloseReachesStatus ==
  \A c \in Cases : \A job \in CloseJobsOf(c) : job \in archived => caseStatus[c] # "LIVE"
=============================================================================
