--------------------------- MODULE MonitoringProofs ---------------------------
(***************************************************************************)
(* Monitoring for any number of cases, blocks, alerts, users, task slots   *)
(* and retries: type correctness, and that what the lifecycle handler owes *)
(* the timeline and the scheduler is never lost.                           *)
(***************************************************************************)
EXTENDS Monitoring, StoreProofs

-----------------------------------------------------------------------------
(* Types *)

TypeInv ==
  /\ StoreTypeOK
  /\ APITypeOK
  /\ SchedulerInv
  /\ LifecycleTypeOK
  /\ PollerTypeOK
  /\ AgentTypeOK

LEMMA InitTypeInv == Init => TypeInv
<1> SUFFICES ASSUME Init PROVE TypeInv
  OBVIOUS
<1>1. StoreTypeOK
  BY DEF Init, StoreInit, StoreTypeOK, CaseStatus, Reason, AlertState, Many
<1>2. APITypeOK
  BY DEF Init, APIInit, APITypeOK, NoToggle
<1>3. SchedulerInv
  BY SchedulerInitInv DEF Init
<1>4. LifecycleTypeOK
  BY DEF Init, LifecycleInit, LifecycleTypeOK
<1>5. PollerTypeOK
  BY PollerAssumption DEF Init, PollerInit, PollerTypeOK, NoPoll, Fresh, PollTask
<1>6. AgentTypeOK
  BY AgentAssumption DEF Init, AgentInit, AgentTypeOK, NoAgent, AgentTask
<1> QED
  BY <1>1, <1>2, <1>3, <1>4, <1>5, <1>6 DEF TypeInv

(* A task after an error, and what asynq then gives up, keep their types.   *)
LEMMA RetryType ==
  ASSUME LifecycleTypeOK, NEW i \in LifecycleSlots, ~At(i, "idle")
  PROVE  /\ RetryOrArchive(lifecycle[i]) \in LifecycleTask \cup {NoTask}
         /\ GivenUp(lifecycle[i]) \in SUBSET Job
<1>1. lifecycle[i] \in LifecycleTask
  BY DEF LifecycleTypeOK, NoTask, At
<1>2. GivenUp(lifecycle[i]) \in SUBSET Job
  BY <1>1 DEF GivenUp, LifecycleTask
<1>3. RetryOrArchive(lifecycle[i]) \in LifecycleTask \cup {NoTask}
  BY <1>1, LifecycleAssumption DEF RetryOrArchive, LifecycleTask, LifecyclePC
<1> QED
  BY <1>2, <1>3

LEMMA HandlerFailsType ==
  ASSUME LifecycleTypeOK, NEW i \in LifecycleSlots, ~At(i, "idle"), HandlerFails(i)
  PROVE  LifecycleTypeOK'
BY RetryType DEF HandlerFails, LifecycleTypeOK

LEMMA GotoType ==
  ASSUME LifecycleTypeOK, NEW i \in LifecycleSlots, ~At(i, "idle"),
         NEW pc \in LifecyclePC, Goto(i, pc), UNCHANGED archived
  PROVE  LifecycleTypeOK'
<1>1. lifecycle[i] \in LifecycleTask
  BY DEF LifecycleTypeOK, NoTask, At
<1> QED
  BY <1>1 DEF Goto, LifecycleTypeOK, LifecycleTask

LEMMA EnqueueType ==
  ASSUME LifecycleTypeOK, NEW job \in Job, Enqueue(job), UNCHANGED archived
  PROVE  LifecycleTypeOK'
BY LifecycleAssumption DEF Enqueue, LifecycleTypeOK, LifecycleTask, LifecyclePC

LEMMA JobType ==
  ASSUME LifecycleTypeOK, NEW i \in LifecycleSlots
  PROVE  /\ lifecycle[i].jobs \in SUBSET Job
         /\ \A job \in CloseJob : job.subject \in Cases
         /\ \A job \in TriggerJob : job.subject \in Alerts
         /\ \A job \in CloseJob : StatusOf(job.action) \in ClosedStatus
<1>1. lifecycle[i].jobs \in SUBSET Job
  BY DEF LifecycleTypeOK, LifecycleTask, NoTask
<1> QED
  BY <1>1 DEF CloseJob, TriggerJob, StatusOf, ClosedStatus

LEMMA BackgroundType ==
  ASSUME TypeInv, Background, UNCHANGED <<storeVars, lifecycleVars, poll, agent, toggling>>
  PROVE  TypeInv'
<1> USE DEF TypeInv
<1>1. /\ StoreTypeOK' /\ APITypeOK'
      /\ LifecycleTypeOK' /\ PollerTypeOK' /\ AgentTypeOK'
  BY DEF StoreTypeOK, storeVars, APITypeOK, LifecycleTypeOK, lifecycleVars,
         PollerTypeOK, AgentTypeOK
<1>2. SchedulerInv'
  <2>1. CASE Start
    <3>1. Main \in Callers /\ CallSync(Main)
      BY <2>1 DEF Start, Callers
    <3> QED
      BY <2>1, <3>1, CallSyncInv DEF Start
  <2>2. CASE Signal
    BY <2>2, SignalInv
  <2>3. CASE RunCurrent
    BY <2>3, RunCurrentInv
  <2>4. CASE \E s \in strays : RunStray(s)
    BY <2>4, RunStrayInv
  <2>5. ASSUME NEW p \in CronJobs, CronSync(p) PROVE SchedulerInv'
    <3>1. p \in Callers /\ CallSync(p) /\ proc \in {"running", "stopping"}
      BY <2>5 DEF CronSync, Callers
    <3> QED
      BY <2>5, <3>1, CallSyncInv DEF CronSync
  <2>6. CASE \E p \in Callers : Lock(p)
    BY <2>6, LockInv
  <2>7. CASE \E p \in Callers : Query(p)
    BY <2>7, QueryInv
  <2>8. CASE \E p \in Callers \ LifecycleSlots : Install(p)
    BY <2>8, InstallInv
  <2>9. CASE \E p \in Callers \ LifecycleSlots : QueryFails(p)
    BY <2>9, QueryFailsInv
  <2> QED
    BY <2>1, <2>2, <2>3, <2>4, <2>5, <2>6, <2>7, <2>8, <2>9 DEF Background
<1> QED
  BY <1>1, <1>2

LEMMA PollRetryType ==
  ASSUME PollerTypeOK, NEW i \in PollSlots
  PROVE  AfterPollError(poll[i]) \in PollTask /\ NoPoll \in PollTask
<1>1. poll[i] \in PollTask
  BY DEF PollerTypeOK
<1>2. NoPoll \in PollTask
  BY PollerAssumption DEF NoPoll, Fresh, PollTask
<1>3. AfterPollError(poll[i]) \in PollTask
  BY <1>1, <1>2, PollerAssumption DEF AfterPollError, Fresh, PollTask, PollPC
<1> QED
  BY <1>2, <1>3

LEMMA AgentRetryType ==
  ASSUME AgentTypeOK, NEW i \in AgentSlots
  PROVE  AfterAgentError(agent[i]) \in AgentTask /\ NoAgent \in AgentTask
<1>1. agent[i] \in AgentTask
  BY DEF AgentTypeOK
<1>2. NoAgent \in AgentTask
  BY AgentAssumption DEF NoAgent, AgentTask
<1>3. AfterAgentError(agent[i]) \in AgentTask
  BY <1>1, <1>2, AgentAssumption DEF AfterAgentError, AgentTask, AgentPC
<1> QED
  BY <1>2, <1>3

LEMMA EndOfProcessType ==
  ASSUME TypeInv, UNCHANGED <<storeVars, toggling>>, CrashWorker \/ StopWorker
  PROVE  TypeInv'
<1> USE DEF TypeInv
<1>1. StoreTypeOK' /\ APITypeOK'
  BY DEF StoreTypeOK, storeVars, APITypeOK
<1>2. SchedulerInv'
  BY ProcessGoneInv DEF CrashWorker, StopWorker, Crash, Shutdown
<1>3. LifecycleTypeOK'
  <2>1. CASE CrashWorker
    <3>1. \A i \in LifecycleSlots : InHandler(i) => ~At(i, "idle")
      BY DEF InHandler, At, LifecyclePC
    <3>2. lifecycle' \in [LifecycleSlots -> LifecycleTask \cup {NoTask}]
      BY <2>1, <3>1, RetryType DEF CrashWorker, LifecycleCrash, LifecycleTypeOK
    <3>3. archived' \in SUBSET Job
      BY <2>1, <3>1, RetryType DEF CrashWorker, LifecycleCrash, LifecycleTypeOK
    <3> QED
      BY <3>2, <3>3 DEF LifecycleTypeOK
  <2>2. CASE StopWorker
    <3>1. ASSUME NEW i \in LifecycleSlots, InHandler(i)
          PROVE  [lifecycle[i] EXCEPT !.pc = "pending"] \in LifecycleTask
      <4>1. lifecycle[i] \in LifecycleTask
        BY <3>1 DEF InHandler, LifecyclePC, LifecycleTypeOK, NoTask
      <4> QED
        BY <4>1 DEF LifecycleTask, LifecyclePC
    <3> QED
      BY <2>2, <3>1 DEF StopWorker, LifecycleShutdown, LifecycleTypeOK
  <2> QED
    BY <2>1, <2>2
<1>4. PollerTypeOK'
  <2>1. CASE CrashWorker
    BY <2>1, PollRetryType DEF CrashWorker, PollerCrash, PollerTypeOK
  <2>2. CASE StopWorker
    <3>1. \A i \in PollSlots : Fresh("pending", poll[i].retried) \in PollTask
      BY DEF PollerTypeOK, PollTask, PollPC, Fresh
    <3> QED
      BY <2>2, <3>1 DEF StopWorker, PollerShutdown, PollerTypeOK
  <2> QED
    BY <2>1, <2>2
<1>5. AgentTypeOK'
  <2>1. CASE CrashWorker
    BY <2>1, AgentRetryType DEF CrashWorker, AgentCrash, AgentTypeOK
  <2>2. CASE StopWorker
    <3>1. \A i \in AgentSlots : [agent[i] EXCEPT !.pc = "pending"] \in AgentTask
      BY DEF AgentTypeOK, AgentTask, AgentPC
    <3> QED
      BY <2>2, <3>1 DEF StopWorker, AgentShutdown, AgentTypeOK
  <2> QED
    BY <2>1, <2>2
<1> QED
  BY <1>1, <1>2, <1>3, <1>4, <1>5

LEMMA LifecycleStepType ==
  ASSUME TypeInv, NEW i \in LifecycleSlots, LifecycleStep(i),
         UNCHANGED <<poll, agent, toggling>>
  PROVE  TypeInv'
<1> USE DEF TypeInv
<1>1. APITypeOK' /\ PollerTypeOK' /\ AgentTypeOK'
  BY DEF APITypeOK, PollerTypeOK, AgentTypeOK
<1>2. i \in Callers
  BY LifecycleAssumption DEF Callers
<1>3. ASSUME UNCHANGED schedVars PROVE SchedulerInv'
  BY <1>3 DEF schedVars, SchedulerInv, SchedulerTypeOK, MutexHeld
<1>4. ASSUME UNCHANGED storeVars PROVE StoreTypeOK'
  BY <1>4 DEF storeVars, StoreTypeOK
<1>5. CASE StartHandler(i)
  <2>1. LifecycleTypeOK'
    BY <1>5, GotoType DEF StartHandler, At, LifecyclePC
  <2> QED
    BY <1>1, <1>3, <1>4, <1>5, <2>1 DEF StartHandler
<1>6. CASE CloseUpdatesStatus(i)
  <2>1. PICK job \in lifecycle[i].jobs \cap CloseJob :
          \/ /\ UpdateCaseStatus(job.subject, StatusOf(job.action), "script")
             /\ Goto(i, "event")
             /\ UNCHANGED archived
          \/ HandlerFails(i) /\ UNCHANGED storeVars
    BY <1>6 DEF CloseUpdatesStatus
  <2>2. StoreTypeOK'
    BY <1>4, <2>1, JobType, UpdateCaseStatusType DEF Reason
  <2>3. LifecycleTypeOK'
    BY <1>6, <2>1, GotoType, HandlerFailsType DEF CloseUpdatesStatus, At, LifecyclePC
  <2> QED
    BY <1>1, <1>3, <1>6, <2>2, <2>3 DEF CloseUpdatesStatus
<1>7. CASE TriggerUpdatesAlert(i)
  <2>1. PICK job \in lifecycle[i].jobs \cap TriggerJob :
          \/ /\ TriggerPriceAlert(job.subject)
             /\ Goto(i, "event")
             /\ UNCHANGED archived
          \/ HandlerFails(i) /\ UNCHANGED storeVars
    BY <1>7 DEF TriggerUpdatesAlert
  <2>2. StoreTypeOK'
    BY <1>4, <2>1 DEF TriggerPriceAlert, StoreTypeOK, AlertState
  <2>3. LifecycleTypeOK'
    BY <1>7, <2>1, GotoType, HandlerFailsType DEF TriggerUpdatesAlert, At, LifecyclePC
  <2> QED
    BY <1>1, <1>3, <1>7, <2>2, <2>3 DEF TriggerUpdatesAlert
<1>8. CASE InsertsEvent(i)
  <2>1. PICK job \in lifecycle[i].jobs :
          \/ /\ CreateTimelineEvent(job.subject)
             /\ Goto(i, IF job \in CloseJob THEN "disable" ELSE "done")
             /\ UNCHANGED archived
          \/ HandlerFails(i) /\ UNCHANGED storeVars
    BY <1>8 DEF InsertsEvent
  <2>2. job.subject \in Author
    BY JobType DEF Job, Author
  <2>3. StoreTypeOK'
    BY <1>4, <2>1, <2>2, CreateTimelineEventType
  <2>4. LifecycleTypeOK'
    BY <1>8, <2>1, GotoType, HandlerFailsType DEF InsertsEvent, At, LifecyclePC
  <2> QED
    BY <1>1, <1>3, <1>8, <2>3, <2>4 DEF InsertsEvent
<1>9. CASE CloseDisablesBlocks(i)
  <2>1. StoreTypeOK'
    BY <1>9 DEF CloseDisablesBlocks, DisableMonitorBlocksByCase,
                UpdateMonitorBlocksEnabledByCase, StoreTypeOK
  <2>2. LifecycleTypeOK'
    BY <1>9, GotoType DEF CloseDisablesBlocks, At, LifecyclePC
  <2>3. SchedulerInv'
    BY <1>2, <1>9, CallSyncInv DEF CloseDisablesBlocks, SchedulerInv, SchedulerTypeOK
  <2> QED
    BY <1>1, <2>1, <2>2, <2>3
<1>10. CASE CloseSynced(i)
  <2>1. LifecycleTypeOK'
    BY <1>10, GotoType DEF CloseSynced, At, LifecyclePC
  <2> QED
    BY <1>1, <1>2, <1>4, <1>10, <2>1, InstallInv DEF CloseSynced
<1>11. CASE CloseSyncFails(i)
  <2>1. LifecycleTypeOK'
    BY <1>11, HandlerFailsType DEF CloseSyncFails, At
  <2> QED
    BY <1>1, <1>2, <1>4, <1>11, <2>1, QueryFailsInv DEF CloseSyncFails
<1>12. CASE StatementFails(i)
  <2>1. LifecycleTypeOK'
    BY <1>12, HandlerFailsType DEF StatementFails, At
  <2> QED
    BY <1>1, <1>3, <1>4, <1>12, <2>1 DEF StatementFails
<1>13. CASE Acknowledge(i)
  <2>1. LifecycleTypeOK'
    BY <1>13 DEF Acknowledge, LifecycleTypeOK
  <2> QED
    BY <1>1, <1>3, <1>4, <1>13, <2>1 DEF Acknowledge
<1> QED
  BY <1>5, <1>6, <1>7, <1>8, <1>9, <1>10, <1>11, <1>12, <1>13 DEF LifecycleStep

LEMMA PollStepType ==
  ASSUME TypeInv, NEW i \in PollSlots, EnqueuePoll(i) \/ PollStep(i),
         UNCHANGED <<agent, toggling>>
  PROVE  TypeInv'
<1> USE DEF TypeInv
<1>1. APITypeOK' /\ AgentTypeOK'
  BY DEF APITypeOK, AgentTypeOK
<1>2. UNCHANGED <<storeVars, schedVars, archived>>
  BY DEF EnqueuePoll, PollStep, StartPoll, ListCases, ListCasesFails, FetchPrices,
         SuccessReached, FailureReached, ReadAlerts, JudgeFails, AlertReached, FinishPoll
<1>3. StoreTypeOK' /\ SchedulerInv'
  BY <1>2 DEF storeVars, StoreTypeOK, schedVars, SchedulerInv, SchedulerTypeOK, MutexHeld
<1>4. LifecycleTypeOK'
  <2>1. CASE lifecycle' = lifecycle
    BY <1>2, <2>1 DEF LifecycleTypeOK
  <2>2. CASE \E c \in Cases : SuccessReached(i, c)
    <3>1. PICK c \in Cases : Enqueue([action |-> "CLOSE_SUCCESS", subject |-> c])
      BY <2>2 DEF SuccessReached
    <3>2. [action |-> "CLOSE_SUCCESS", subject |-> c] \in Job
      BY DEF Job, CloseJob
    <3> QED
      BY <1>2, <3>1, <3>2, EnqueueType
  <2>3. CASE \E c \in Cases : FailureReached(i, c)
    <3>1. PICK c \in Cases : Enqueue([action |-> "CLOSE_FAILURE", subject |-> c])
      BY <2>3 DEF FailureReached
    <3>2. [action |-> "CLOSE_FAILURE", subject |-> c] \in Job
      BY DEF Job, CloseJob
    <3> QED
      BY <1>2, <3>1, <3>2, EnqueueType
  <2>4. CASE \E a \in Alerts : AlertReached(i, a)
    <3>1. PICK a \in Alerts : Enqueue([action |-> "TRIGGER_ALERT", subject |-> a])
      BY <2>4 DEF AlertReached
    <3>2. [action |-> "TRIGGER_ALERT", subject |-> a] \in Job
      BY DEF Job, TriggerJob
    <3> QED
      BY <1>2, <3>1, <3>2, EnqueueType
  <2> QED
    BY <2>1, <2>2, <2>3, <2>4
    DEF EnqueuePoll, PollStep, StartPoll, ListCases, ListCasesFails, FetchPrices,
        ReadAlerts, JudgeFails, FinishPoll
<1>5. poll[i] \in PollTask /\ NoPoll \in PollTask /\ AfterPollError(poll[i]) \in PollTask
  BY PollRetryType DEF PollerTypeOK
<1>6. PollerTypeOK'
  <2>1. CASE EnqueuePoll(i) \/ StartPoll(i)
    <3>1. Fresh("pending", 0) \in PollTask /\ Fresh("list", poll[i].retried) \in PollTask
      BY <1>5, PollerAssumption DEF Fresh, PollTask, PollPC
    <3> QED
      BY <1>5, <2>1, <3>1 DEF EnqueuePoll, StartPoll, PollerTypeOK
  <2>2. CASE ListCases(i)
    <3>1. [poll[i] EXCEPT !.pc = "prices", !.live = ListLiveCases] \in PollTask
      BY <1>5 DEF PollTask, PollPC, ListLiveCases
    <3> QED
      BY <1>5, <2>2, <3>1 DEF ListCases, PollerTypeOK
  <2>3. CASE ListCasesFails(i)
    BY <1>5, <2>3 DEF ListCasesFails, PollFails, PollerTypeOK
  <2>4. CASE FetchPrices(i)
    <3>1. CASE PollFails(i)
      BY <1>5, <3>1 DEF PollFails, PollerTypeOK
    <3>2. ASSUME NEW priced \in SUBSET (poll[i].live \cap Priced),
                 poll' = [poll EXCEPT ![i].pc = "judge", ![i].todo = priced]
          PROVE  PollerTypeOK'
      BY <1>5, <3>2 DEF PollerTypeOK, PollTask, PollPC
    <3> QED
      BY <2>4, <3>1, <3>2 DEF FetchPrices
  <2>5. ASSUME NEW c \in Cases, SuccessReached(i, c) \/ FailureReached(i, c)
        PROVE  PollerTypeOK'
    <3>1. poll' = [poll EXCEPT ![i].todo = @ \ {c}]
      BY <2>5 DEF SuccessReached, FailureReached, Judged
    <3> QED
      BY <1>5, <3>1 DEF PollerTypeOK, PollTask
  <2>6. ASSUME NEW c \in Cases, ReadAlerts(i, c)
        PROVE  PollerTypeOK'
    <3>1. PICK ringing \in SUBSET Alerts :
            poll' = [poll EXCEPT ![i].todo = @ \ {c}, ![i].ringing = ringing]
      BY <2>6 DEF ReadAlerts, ListUntriggeredAlertsByCase
    <3> QED
      BY <1>5, <3>1 DEF PollerTypeOK, PollTask
  <2>7. ASSUME NEW c \in Cases, JudgeFails(i, c)
        PROVE  PollerTypeOK'
    <3>1. poll' = [poll EXCEPT ![i].todo = @ \ {c}, ![i].ringing = {},
                               ![i].failed = @ \cup {c}]
      BY <2>7 DEF JudgeFails
    <3> QED
      BY <1>5, <3>1 DEF PollerTypeOK, PollTask
  <2>8. ASSUME NEW a \in Alerts, AlertReached(i, a)
        PROVE  PollerTypeOK'
    <3>1. poll' = [poll EXCEPT ![i].ringing = @ \ {a}]
      BY <2>8 DEF AlertReached
    <3> QED
      BY <1>5, <3>1 DEF PollerTypeOK, PollTask
  <2>9. CASE FinishPoll(i)
    BY <1>5, <2>9 DEF FinishPoll, PollFails, PollerTypeOK
  <2> QED
    BY <2>1, <2>2, <2>3, <2>4, <2>5, <2>6, <2>7, <2>8, <2>9 DEF PollStep
<1> QED
  BY <1>1, <1>3, <1>4, <1>6

LEMMA AgentStepType ==
  ASSUME TypeInv, NEW i \in AgentSlots,
         AgentStep(i) \/ \E s \in ActiveSchedulers, b \in Blocks : EnqueueAgent(i, s, b),
         UNCHANGED <<lifecycleVars, poll, toggling>>
  PROVE  TypeInv'
<1> USE DEF TypeInv
<1>1. APITypeOK' /\ LifecycleTypeOK' /\ PollerTypeOK'
  BY DEF APITypeOK, LifecycleTypeOK, lifecycleVars, PollerTypeOK
<1>2. UNCHANGED schedVars
  BY DEF AgentStep, EnqueueAgent, StartAgent, ReadSnapshot, InsertResult, StampBlock,
         AgentStatementFails, AcknowledgeAgent
<1>3. SchedulerInv'
  BY <1>2 DEF schedVars, SchedulerInv, SchedulerTypeOK, MutexHeld
<1>4. agent[i] \in AgentTask /\ NoAgent \in AgentTask /\ AfterAgentError(agent[i]) \in AgentTask
  BY AgentRetryType DEF AgentTypeOK
<1>5. AgentTypeOK'
  <2>1. ASSUME NEW pc \in AgentPC, AgentGoto(i, pc) PROVE AgentTypeOK'
    BY <1>4, <2>1 DEF AgentGoto, AgentTypeOK, AgentTask
  <2>2. CASE AgentFails(i)
    BY <1>4, <2>2 DEF AgentFails, AgentTypeOK
  <2>3. CASE AcknowledgeAgent(i)
    BY <1>4, <2>3 DEF AcknowledgeAgent, AgentTypeOK
  <2>4. CASE \E s \in ActiveSchedulers, b \in Blocks : EnqueueAgent(i, s, b)
    <3>1. \A b \in Blocks : [pc |-> "pending", blocks |-> {b}, retried |-> 0] \in AgentTask
      BY AgentAssumption DEF AgentTask, AgentPC
    <3> QED
      BY <2>4, <3>1 DEF EnqueueAgent, AgentTypeOK
  <2> QED
    BY <2>1, <2>2, <2>3, <2>4
    DEF AgentStep, StartAgent, ReadSnapshot, InsertResult, StampBlock,
        AgentStatementFails, AgentPC
<1>6. StoreTypeOK'
  <2>1. CASE UNCHANGED storeVars
    BY <2>1 DEF storeVars, StoreTypeOK
  <2>2. CASE InsertResult(i)
    <3>1. PICK b \in Blocks : CreateTimelineEvent(b) \/ UNCHANGED storeVars
      BY <1>4, <2>2 DEF InsertResult, AgentTask
    <3> QED
      BY <2>1, <3>1, CreateTimelineEventType DEF Author
  <2>3. CASE StampBlock(i)
    <3>1. PICK b \in Blocks : UpdateMonitorBlockLastExecuted(b) \/ UNCHANGED storeVars
      BY <1>4, <2>3 DEF StampBlock, AgentTask
    <3> QED
      BY <2>1, <3>1, UpdateMonitorBlockLastExecutedType
  <2> QED
    BY <2>1, <2>2, <2>3
    DEF AgentStep, EnqueueAgent, StartAgent, ReadSnapshot, AgentStatementFails,
        AcknowledgeAgent
<1> QED
  BY <1>1, <1>3, <1>5, <1>6

LEMMA APIStepType ==
  ASSUME TypeInv, APIStep, UNCHANGED <<schedVars, lifecycleVars, poll, agent>>
  PROVE  TypeInv'
<1> USE DEF TypeInv
<1>1. StoreTypeOK' /\ APITypeOK'
  <2>1. CASE \E u \in Users, c \in Cases, s \in ClosedStatus : Close(u, c, s)
    BY <2>1, CloseType
  <2>2. CASE \E u \in Users, c \in Cases : Delete(u, c)
    BY <2>2, DeleteType
  <2>3. CASE \E b \in Blocks, on \in BOOLEAN : ToggleMonitorBlock(b, on)
    BY <2>3, ToggleMonitorBlockType
  <2>4. CASE \E r \in Requests, c \in Cases, on, keep \in BOOLEAN :
               ToggleCaseMonitoring(r, c, on, keep)
    BY <2>4, ToggleCaseMonitoringType
  <2>5. CASE \E r \in Requests : ToggleCasePolling(r)
    BY <2>5, ToggleCasePollingType
  <2>6. CASE \E r \in Requests : ToggleCasePollingFails(r)
    BY <2>6, ToggleCasePollingFailsType
  <2>7. CASE \E u \in Users, a \in Alerts : CreateAlert(u, a)
    BY <2>7, CreateAlertType
  <2>8. CASE \E u \in Users, a \in Alerts : DeleteAlert(u, a)
    BY <2>8, DeleteAlertType
  <2> QED
    BY <2>1, <2>2, <2>3, <2>4, <2>5, <2>6, <2>7, <2>8 DEF APIStep
<1>2. SchedulerInv' /\ LifecycleTypeOK' /\ PollerTypeOK' /\ AgentTypeOK'
  BY DEF SchedulerInv, SchedulerTypeOK, MutexHeld, schedVars, LifecycleTypeOK,
         lifecycleVars, PollerTypeOK, AgentTypeOK
<1> QED
  BY <1>1, <1>2

LEMMA NextTypeInv == TypeInv /\ [Next]_vars => TypeInv'
<1> SUFFICES ASSUME TypeInv, [Next]_vars PROVE TypeInv'
  OBVIOUS
<1>1. CASE UNCHANGED vars
  BY <1>1 DEF vars, storeVars, schedVars, TypeInv, StoreTypeOK, APITypeOK, SchedulerInv,
              SchedulerTypeOK, MutexHeld, LifecycleTypeOK, PollerTypeOK, AgentTypeOK
<1> QED
  BY <1>1, BackgroundType, EndOfProcessType, LifecycleStepType, PollStepType,
     AgentStepType, APIStepType DEF Next

THEOREM AlwaysTypeInv == Spec => []TypeInv
BY InitTypeInv, NextTypeInv, PTL DEF Spec

(* Every table, every task and every goroutine keeps its type.              *)
THEOREM TypeCorrect == Spec => []TypeOK
<1>1. TypeInv => TypeOK
  BY DEF TypeInv, SchedulerInv, TypeOK
<1> QED
  BY <1>1, AlwaysTypeInv, PTL

-----------------------------------------------------------------------------
(* What the lifecycle handler owes.  The invariants of Monitoring are not   *)
(* inductive: they have to say what holds at each statement of the handler. *)

Free(c, S) == \A b \in S : BlockCase[b] # c

OneJob == \A i \in LifecycleSlots : \A j, k \in lifecycle[i].jobs : j = k

SyncsFromHandler == \A i \in LifecycleSlots : call[i] # "idle" => At(i, "sync")

AlertTasks ==
  \A i \in LifecycleSlots, a \in Alerts : Trigger(a) \in lifecycle[i].jobs =>
    /\ lifecycle[i].pc \notin {"disable", "sync"}
    /\ At(i, "event") => alert[a] \in {"triggered", "DELETED"}
    /\ At(i, "done") => timeline[a] > 0 \/ alert[a] = "DELETED"

CloseTasks ==
  \A i \in LifecycleSlots, job \in CloseJob : job \in lifecycle[i].jobs =>
    /\ lifecycle[i].pc \in {"event", "disable", "sync", "done"}
         => caseStatus[job.subject] # "LIVE"
    /\ lifecycle[i].pc \in {"disable", "sync", "done"}
         => timeline[job.subject] > 0 \/ caseStatus[job.subject] = "DELETED"
    /\ call[i] = "read" => Free(job.subject, rows)
    /\ At(i, "done") => Free(job.subject, rows) /\ Free(job.subject, current.entries)

ScriptClosed ==
  \A c \in Cases : closedReason[c] = "script" => caseStatus[c] \in ClosedStatus

Settled(c) == \A job \in CloseJobsOf(c) : ~InFlight(job) /\ job \notin archived

SettledUnscheduled ==
  \A c \in Cases : closedReason[c] = "script" /\ Settled(c)
    => Free(c, rows) /\ Free(c, current.entries)

DeliveryInv ==
  /\ OneJob
  /\ SyncsFromHandler
  /\ AlertTasks
  /\ CloseTasks
  /\ ScriptClosed
  /\ AlertEventMeansTriggered
  /\ CloseEventMeansClosed
  /\ TriggeredAlertAccounted
  /\ ScriptCloseAccounted
  /\ SettledUnscheduled

LEMMA InitDeliveryInv == Init => DeliveryInv
<1> SUFFICES ASSUME Init PROVE DeliveryInv
  OBVIOUS
<1>1. /\ \A i \in LifecycleSlots : lifecycle[i] = NoTask /\ call[i] = "idle"
      /\ rows = {} /\ current.entries = {}
  BY LifecycleAssumption DEF Init, LifecycleInit, SchedulerInit, NoScheduler, Callers
<1>2. /\ \A c \in Cases : timeline[c] = 0 /\ closedReason[c] = "none"
      /\ \A a \in Alerts : timeline[a] = 0 /\ alert[a] = "absent"
  BY DEF Init, StoreInit, Author
<1>3. OneJob /\ SyncsFromHandler /\ AlertTasks /\ CloseTasks
  BY <1>1 DEF OneJob, SyncsFromHandler, AlertTasks, CloseTasks, NoTask
<1>4. /\ ScriptClosed /\ AlertEventMeansTriggered /\ CloseEventMeansClosed
      /\ TriggeredAlertAccounted /\ ScriptCloseAccounted /\ SettledUnscheduled
  BY <1>2 DEF ScriptClosed, AlertEventMeansTriggered, CloseEventMeansClosed,
              TriggeredAlertAccounted, ScriptCloseAccounted, SettledUnscheduled
<1> QED
  BY <1>3, <1>4 DEF DeliveryInv

-----------------------------------------------------------------------------
(* Users and agents change the rows under the handler's feet, and only in   *)
(* ways that keep its promises.                                             *)

Benign ==
  /\ \A c \in Cases :
       /\ caseStatus[c] # "LIVE" => caseStatus'[c] # "LIVE"
       /\ caseStatus[c] = "DELETED" => caseStatus'[c] = "DELETED"
       /\ timeline'[c] = timeline[c] \/ (timeline'[c] = 0 /\ caseStatus'[c] = "DELETED")
       /\ closedReason'[c] = "script"
            => /\ closedReason[c] = "script"
               /\ caseStatus'[c] = caseStatus[c]
               /\ timeline'[c] = timeline[c]
       /\ caseStatus'[c] = "DELETED" => timeline'[c] = 0 \/ caseStatus[c] = "DELETED"
  /\ \A a \in Alerts :
       \/ timeline'[a] = timeline[a] /\ alert'[a] = alert[a]
       \/ timeline'[a] = timeline[a] /\ alert[a] = "absent" /\ alert'[a] = "untriggered"
       \/ timeline'[a] = timeline[a] /\ alert'[a] = "DELETED"
       \/ timeline'[a] = 0 /\ alert'[a] = "DELETED"

LEMMA BenignKeeps ==
  ASSUME TypeInv, TypeInv', DeliveryInv, Benign, UNCHANGED <<schedVars, lifecycleVars>>
  PROVE  DeliveryInv'
<1> USE DEF DeliveryInv
<1>1. UNCHANGED <<call, rows, current, lifecycle, archived>>
  BY DEF schedVars, lifecycleVars
<1>2. \A i \in LifecycleSlots, pc \in {"event", "done", "sync"} : At(i, pc)' <=> At(i, pc)
  BY <1>1 DEF At
<1>3. \A job : InFlight(job)' <=> InFlight(job)
  BY <1>1 DEF InFlight
<1>4. OneJob' /\ SyncsFromHandler'
  BY <1>1, <1>2 DEF OneJob, SyncsFromHandler
<1>5. AlertTasks'
  BY <1>1, <1>2 DEF AlertTasks, Benign
<1>6. CloseTasks'
  <2>1. \A job \in CloseJob : job.subject \in Cases
    BY DEF CloseJob
  <2> QED
    BY <1>1, <1>2, <2>1 DEF CloseTasks, Benign, Free
<1>7. ScriptClosed'
  BY DEF ScriptClosed, Benign
<1>8. AlertEventMeansTriggered'
  BY DEF AlertEventMeansTriggered, Benign
<1>9. CloseEventMeansClosed'
  <2> SUFFICES ASSUME NEW c \in Cases, timeline'[c] > 0
               PROVE  caseStatus'[c] \in ClosedStatus
    BY DEF CloseEventMeansClosed
  <2>1. timeline'[c] = timeline[c] /\ timeline[c] > 0
    BY DEF Benign
  <2>2. caseStatus[c] \in ClosedStatus
    BY <2>1 DEF CloseEventMeansClosed
  <2>3. caseStatus'[c] \notin {"LIVE", "DELETED"}
    BY <2>1, <2>2 DEF Benign, ClosedStatus
  <2> QED
    BY <2>3 DEF TypeInv, StoreTypeOK, CaseStatus
<1>10. TriggeredAlertAccounted'
  BY <1>1, <1>3 DEF TriggeredAlertAccounted, Benign
<1>11. ScriptCloseAccounted'
  BY <1>1, <1>3 DEF ScriptCloseAccounted, Benign
<1>12. SettledUnscheduled'
  BY <1>1, <1>3 DEF SettledUnscheduled, Settled, Free, Benign
<1> QED
  BY <1>4, <1>5, <1>6, <1>7, <1>8, <1>9, <1>10, <1>11, <1>12

LEMMA APIBenign ==
  ASSUME TypeInv, APIStep
  PROVE  Benign
<1> USE DEF TypeInv
<1>1. /\ \A c \in Cases : CaseOf(c) = c
      /\ \A a \in Alerts : CaseOf(a) = AlertCase[a]
  BY StoreAssumption DEF CaseOf
<1>2. CASE UNCHANGED <<caseStatus, closedReason, alert, timeline>>
  BY <1>2 DEF Benign
<1>3. ASSUME NEW u \in Users, NEW c \in Cases, NEW s \in ClosedStatus, Close(u, c, s)
      PROVE  Benign
  BY <1>3 DEF Close, UpdateCaseStatus, MatchesUpdateCaseStatus, Exists, Benign,
              StoreTypeOK, ClosedStatus
<1>4. ASSUME NEW u \in Users, NEW c \in Cases, Delete(u, c)
      PROVE  Benign
  <2>1. /\ \A d \in Cases : caseStatus'[d] = IF d = c THEN "DELETED" ELSE caseStatus[d]
        /\ \A d \in Cases : closedReason'[d] = IF d = c THEN "none" ELSE closedReason[d]
    BY <1>4 DEF Delete, DeleteCaseRow, StoreTypeOK
  <2>2. /\ \A d \in Cases : timeline'[d] = IF d = c THEN 0 ELSE timeline[d]
        /\ \A a \in Alerts : timeline'[a] = IF AlertCase[a] = c THEN 0 ELSE timeline[a]
        /\ \A a \in Alerts : alert'[a] = IF AlertCase[a] = c THEN "DELETED" ELSE alert[a]
    BY <1>1, <1>4 DEF Delete, DeleteCaseRow, Author
  <2> QED
    BY <2>1, <2>2 DEF Benign
<1>5. ASSUME NEW u \in Users, NEW a \in Alerts, CreateAlert(u, a) \/ DeleteAlert(u, a)
      PROVE  Benign
  BY <1>5 DEF CreateAlert, DeleteAlert, SetAlert, StoreTypeOK, Benign
<1> QED
  BY <1>2, <1>3, <1>4, <1>5
  DEF APIStep, ToggleMonitorBlock, UpdateMonitorBlockEnabled, ToggleCaseMonitoring,
      UpdateMonitorBlocksEnabledByCase, ToggleCasePolling, UpdateCaseDSLPollingEnabled,
      ToggleCasePollingFails, storeVars

LEMMA AgentBenign ==
  ASSUME TypeInv, NEW i \in AgentSlots,
         AgentStep(i) \/ \E s \in ActiveSchedulers, b \in Blocks : EnqueueAgent(i, s, b)
  PROVE  Benign
<1> USE DEF TypeInv
<1>1. CASE UNCHANGED <<caseStatus, closedReason, alert, timeline>>
  BY <1>1 DEF Benign
<1>2. CASE InsertResult(i)
  <2>1. PICK b \in Blocks : CreateTimelineEvent(b) \/ UNCHANGED storeVars
    BY <1>2 DEF InsertResult, AgentTypeOK, AgentTask
  <2>2. b \notin Cases /\ b \notin Alerts
    BY StoreAssumption
  <2> QED
    BY <2>1, <2>2 DEF CreateTimelineEvent, storeVars, StoreTypeOK, Author, Benign
<1> QED
  BY <1>1, <1>2
  DEF AgentStep, EnqueueAgent, StartAgent, ReadSnapshot, StampBlock,
      UpdateMonitorBlockLastExecuted, AgentStatementFails, AcknowledgeAgent, storeVars

-----------------------------------------------------------------------------
(* The poller adds tasks, the other syncs replace the schedules, and errors *)
(* and crashes put tasks back: none of it touches the rows.                 *)

LEMMA EnqueueKeeps ==
  ASSUME TypeInv, DeliveryInv, NEW job \in Job, Enqueue(job),
         UNCHANGED <<storeVars, schedVars, archived>>
  PROVE  DeliveryInv'
<1> USE DEF DeliveryInv, TypeInv
<1>1. UNCHANGED <<call, rows, current, caseStatus, closedReason, alert, timeline>>
  BY DEF schedVars, storeVars
<1>2. PICK i \in LifecycleSlots :
        /\ At(i, "idle")
        /\ lifecycle' = [lifecycle EXCEPT
                           ![i] = [pc |-> "pending", jobs |-> {job}, retried |-> 0]]
  BY DEF Enqueue
<1>3. lifecycle[i] = NoTask
  BY <1>2 DEF At, LifecycleTypeOK, LifecycleTask, LifecyclePC
<1>4. /\ \A j \in LifecycleSlots : j # i => lifecycle'[j] = lifecycle[j]
      /\ lifecycle'[i] = [pc |-> "pending", jobs |-> {job}, retried |-> 0]
  BY <1>2 DEF LifecycleTypeOK
<1>5. call[i] = "idle"
  BY <1>2 DEF SyncsFromHandler, At
<1>6. \A k : InFlight(k) => InFlight(k)'
  BY <1>3, <1>4 DEF InFlight, NoTask
<1>7. OneJob' /\ SyncsFromHandler'
  BY <1>1, <1>4, <1>5 DEF OneJob, SyncsFromHandler, At
<1>8. AlertTasks'
  BY <1>1, <1>4 DEF AlertTasks, At
<1>9. CloseTasks'
  BY <1>1, <1>4, <1>5 DEF CloseTasks, At, Free
<1>10. TriggeredAlertAccounted' /\ ScriptCloseAccounted'
  BY <1>1, <1>6 DEF TriggeredAlertAccounted, ScriptCloseAccounted
<1>11. SettledUnscheduled'
  BY <1>1, <1>6 DEF SettledUnscheduled, Settled, Free
<1>12. ScriptClosed' /\ AlertEventMeansTriggered' /\ CloseEventMeansClosed'
  BY <1>1 DEF ScriptClosed, AlertEventMeansTriggered, CloseEventMeansClosed
<1> QED
  BY <1>7, <1>8, <1>9, <1>10, <1>11, <1>12

Rescheduled ==
  /\ rows' \subseteq rows \cup ListActiveMonitorBlocks
  /\ current'.entries \subseteq current.entries \cup rows
  /\ \A i \in LifecycleSlots :
       /\ call'[i] # "idle" => call[i] # "idle"
       /\ call'[i] = "read" => call[i] = "read" \/ rows' \subseteq ListActiveMonitorBlocks

LEMMA RescheduledKeeps ==
  ASSUME TypeInv, DeliveryInv, Rescheduled, UNCHANGED <<storeVars, lifecycleVars>>
  PROVE  DeliveryInv'
<1> USE DEF DeliveryInv, TypeInv
<1>1. UNCHANGED <<lifecycle, archived, caseStatus, closedReason, alert, timeline>>
  BY DEF lifecycleVars, storeVars
<1>2. \A c \in Cases : caseStatus[c] # "LIVE" => Free(c, ListActiveMonitorBlocks)
  BY DEF Free, ListActiveMonitorBlocks
<1>3. OneJob' /\ SyncsFromHandler' /\ AlertTasks'
  BY <1>1 DEF OneJob, SyncsFromHandler, AlertTasks, At, Rescheduled
<1>4. CloseTasks'
  <2> SUFFICES ASSUME NEW i \in LifecycleSlots, NEW job \in CloseJob,
                      job \in lifecycle[i].jobs
               PROVE  /\ call'[i] = "read" => Free(job.subject, rows')
                      /\ At(i, "done") => Free(job.subject, rows')
                                           /\ Free(job.subject, current'.entries)
    BY <1>1 DEF CloseTasks, At, Free
  <2>1. job.subject \in Cases
    BY DEF CloseJob
  <2>2. ASSUME call'[i] = "read" PROVE Free(job.subject, rows')
    <3>1. At(i, "sync")
      BY <2>2 DEF Rescheduled, SyncsFromHandler
    <3>2. caseStatus[job.subject] # "LIVE"
      BY <3>1 DEF CloseTasks, At
    <3> QED
      BY <1>2, <2>1, <2>2, <3>2 DEF Rescheduled, CloseTasks, Free
  <2>3. ASSUME At(i, "done")
        PROVE  Free(job.subject, rows') /\ Free(job.subject, current'.entries)
    <3>1. caseStatus[job.subject] # "LIVE"
      BY <2>3 DEF CloseTasks, At
    <3> QED
      BY <1>2, <2>1, <2>3, <3>1 DEF Rescheduled, CloseTasks, Free
  <2> QED
    BY <2>2, <2>3
<1>5. \A job : InFlight(job)' <=> InFlight(job)
  BY <1>1 DEF InFlight
<1>6. SettledUnscheduled'
  BY <1>1, <1>2, <1>5 DEF SettledUnscheduled, Settled, Free, Rescheduled, ScriptClosed,
                          ClosedStatus
<1>7. /\ ScriptClosed' /\ AlertEventMeansTriggered' /\ CloseEventMeansClosed'
      /\ TriggeredAlertAccounted' /\ ScriptCloseAccounted'
  BY <1>1, <1>5 DEF ScriptClosed, AlertEventMeansTriggered, CloseEventMeansClosed,
                    TriggeredAlertAccounted, ScriptCloseAccounted
<1> QED
  BY <1>3, <1>4, <1>6, <1>7

LEMMA BackgroundKeeps ==
  ASSUME TypeInv, DeliveryInv, Background,
         UNCHANGED <<storeVars, lifecycleVars, poll, agent, toggling>>
  PROVE  DeliveryInv'
<1> USE DEF TypeInv, SchedulerInv, SchedulerTypeOK
<1>1. Main \notin LifecycleSlots /\ \A p \in CronJobs : p \notin LifecycleSlots
  BY SchedulerAssumption, LifecycleAssumption
<1>2. \A i \in LifecycleSlots : i \in Callers
  BY LifecycleAssumption DEF Callers
<1>3. ASSUME UNCHANGED <<call, rows>>, current'.entries = current.entries
      PROVE  Rescheduled
  BY <1>3 DEF Rescheduled
<1>4. ASSUME NEW p \in {Main} \cup CronJobs, CallSync(p), UNCHANGED <<rows, current>>
      PROVE  Rescheduled
  BY <1>1, <1>4 DEF CallSync, Rescheduled
<1>5. ASSUME NEW p \in Callers, Lock(p)
      PROVE  Rescheduled
  BY <1>2, <1>5 DEF Lock, Rescheduled
<1>6. ASSUME NEW p \in Callers, Query(p)
      PROVE  Rescheduled
  BY <1>2, <1>6 DEF Query, Rescheduled
<1>7. ASSUME NEW p \in Callers \ LifecycleSlots, Install(p)
      PROVE  Rescheduled
  BY <1>2, <1>7 DEF Install, Registered, Rescheduled
<1>8. ASSUME NEW p \in Callers \ LifecycleSlots, QueryFails(p)
      PROVE  Rescheduled
  BY <1>2, <1>8 DEF QueryFails, Rescheduled
<1>9. CASE RunCurrent
  <2>1. current'.entries = current.entries
    BY <1>9 DEF RunCurrent, Scheduler
  <2> QED
    BY <1>3, <1>9, <2>1, RescheduledKeeps DEF RunCurrent
<1>10. CASE Background /\ ~RunCurrent
  <2>1. Rescheduled
    BY <1>3, <1>4, <1>5, <1>6, <1>7, <1>8, <1>10
    DEF Background, Start, Signal, RunStray, CronSync
  <2> QED
    BY <2>1, RescheduledKeeps
<1> QED
  BY <1>9, <1>10

(* A task that fails, or whose process ends, waits for its next try with    *)
(* the same job, or the job is archived.                                    *)
PutBack ==
  /\ \A i \in LifecycleSlots :
       \/ lifecycle'[i] = lifecycle[i] /\ call'[i] \in {call[i], "idle"}
       \/ /\ call'[i] = "idle"
          /\ lifecycle'[i].pc = "pending"
          /\ lifecycle'[i].jobs = lifecycle[i].jobs
       \/ /\ call'[i] = "idle"
          /\ lifecycle'[i] = NoTask
          /\ lifecycle[i].jobs \subseteq archived'
  /\ archived \subseteq archived'
  /\ rows' \subseteq rows
  /\ current'.entries \subseteq current.entries

LEMMA PutBackKeeps ==
  ASSUME TypeInv, DeliveryInv, PutBack, UNCHANGED storeVars
  PROVE  DeliveryInv'
<1> USE DEF DeliveryInv
<1>1. UNCHANGED <<caseStatus, closedReason, alert, timeline>>
  BY DEF storeVars
<1>2. \A job : InFlight(job) \/ job \in archived => InFlight(job)' \/ job \in archived'
  BY DEF InFlight, PutBack
<1>3. OneJob'
  BY DEF OneJob, PutBack, NoTask
<1>4. SyncsFromHandler'
  BY DEF SyncsFromHandler, PutBack, At
<1>5. \A i \in LifecycleSlots :
        \/ lifecycle'[i] = lifecycle[i] /\ call'[i] \in {call[i], "idle"}
        \/ lifecycle'[i].pc \in {"pending", "idle"} /\ call'[i] = "idle"
  BY DEF PutBack, NoTask
<1>6. AlertTasks'
  BY <1>1, <1>5 DEF AlertTasks, At
<1>7. CloseTasks'
  BY <1>1, <1>5 DEF CloseTasks, At, Free, PutBack
<1>8. TriggeredAlertAccounted'
  BY <1>1, <1>2 DEF TriggeredAlertAccounted
<1>9. ScriptCloseAccounted'
  BY <1>1, <1>2 DEF ScriptCloseAccounted
<1>10. SettledUnscheduled'
  BY <1>1, <1>2 DEF SettledUnscheduled, Settled, Free, PutBack
<1>11. ScriptClosed' /\ AlertEventMeansTriggered' /\ CloseEventMeansClosed'
  BY <1>1 DEF ScriptClosed, AlertEventMeansTriggered, CloseEventMeansClosed
<1> QED
  BY <1>3, <1>4, <1>6, <1>7, <1>8, <1>9, <1>10, <1>11

LEMMA RetryPutsBack ==
  ASSUME LifecycleTypeOK, NEW i \in LifecycleSlots
  PROVE  \/ /\ RetryOrArchive(lifecycle[i]).pc = "pending"
            /\ RetryOrArchive(lifecycle[i]).jobs = lifecycle[i].jobs
         \/ /\ RetryOrArchive(lifecycle[i]) = NoTask
            /\ GivenUp(lifecycle[i]) = lifecycle[i].jobs
BY DEF RetryOrArchive, GivenUp

LEMMA EndOfProcessKeeps ==
  ASSUME TypeInv, DeliveryInv, UNCHANGED <<storeVars, toggling>>, CrashWorker \/ StopWorker
  PROVE  DeliveryInv'
<1> USE DEF TypeInv
<1>1. /\ \A i \in LifecycleSlots : call'[i] = "idle"
      /\ rows' = {} /\ current'.entries = {}
  BY LifecycleAssumption
  DEF CrashWorker, StopWorker, Crash, Shutdown, ProcessGone, NoScheduler, Callers
<1>2. CASE CrashWorker
  <2>1. ASSUME NEW i \in LifecycleSlots
        PROVE  \/ lifecycle'[i] = lifecycle[i]
               \/ /\ lifecycle'[i].pc = "pending"
                  /\ lifecycle'[i].jobs = lifecycle[i].jobs
               \/ lifecycle'[i] = NoTask /\ lifecycle[i].jobs \subseteq archived'
    BY <1>2, RetryPutsBack DEF CrashWorker, LifecycleCrash
  <2>2. archived \subseteq archived'
    BY <1>2 DEF CrashWorker, LifecycleCrash
  <2>3. PutBack
    BY <1>1, <2>1, <2>2 DEF PutBack
  <2> QED
    BY <2>3, PutBackKeeps
<1>3. CASE StopWorker
  <2>1. ASSUME NEW i \in LifecycleSlots
        PROVE  \/ lifecycle'[i] = lifecycle[i]
               \/ /\ lifecycle'[i].pc = "pending"
                  /\ lifecycle'[i].jobs = lifecycle[i].jobs
    BY <1>3 DEF StopWorker, LifecycleShutdown, LifecycleTypeOK, LifecycleTask, NoTask
  <2>2. PutBack
    BY <1>1, <1>3, <2>1 DEF PutBack, StopWorker, LifecycleShutdown
  <2> QED
    BY <2>2, PutBackKeeps
<1> QED
  BY <1>2, <1>3

LEMMA HandlerFailsKeeps ==
  ASSUME TypeInv, DeliveryInv, NEW i \in LifecycleSlots, HandlerFails(i),
         UNCHANGED <<storeVars, rows, current>>,
         call'[i] = "idle", \A j \in LifecycleSlots : j # i => call'[j] = call[j]
  PROVE  DeliveryInv'
<1>1. \A j \in LifecycleSlots : j # i => lifecycle'[j] = lifecycle[j]
  BY DEF HandlerFails, TypeInv, LifecycleTypeOK
<1>2. lifecycle'[i] = RetryOrArchive(lifecycle[i])
  BY DEF HandlerFails, TypeInv, LifecycleTypeOK
<1>3. PutBack
  BY <1>1, <1>2, RetryPutsBack DEF PutBack, HandlerFails, TypeInv
<1> QED
  BY <1>3, PutBackKeeps

-----------------------------------------------------------------------------
(* The steps of the handler that succeed *)

LEMMA GotoFacts ==
  ASSUME TypeInv, NEW i \in LifecycleSlots, NEW pc, Goto(i, pc), UNCHANGED archived
  PROVE  /\ lifecycle'[i].pc = pc
         /\ \A j \in LifecycleSlots : j # i => lifecycle'[j] = lifecycle[j]
         /\ \A j \in LifecycleSlots : lifecycle'[j].jobs = lifecycle[j].jobs
         /\ \A job : InFlight(job)' <=> InFlight(job)
         /\ OneJob => OneJob'
<1>1. lifecycle[i] \in LifecycleTask \cup {NoTask}
  BY DEF TypeInv, LifecycleTypeOK
<1>2. lifecycle' = [lifecycle EXCEPT ![i].pc = pc]
  BY DEF Goto
<1>3. /\ lifecycle'[i].pc = pc /\ lifecycle'[i].jobs = lifecycle[i].jobs
      /\ \A j \in LifecycleSlots : j # i => lifecycle'[j] = lifecycle[j]
  BY <1>1, <1>2 DEF TypeInv, LifecycleTypeOK, LifecycleTask, NoTask
<1>4. \A j \in LifecycleSlots : lifecycle'[j].jobs = lifecycle[j].jobs
  BY <1>3
<1> QED
  BY <1>3, <1>4 DEF InFlight, OneJob

LEMMA StartHandlerKeeps ==
  ASSUME TypeInv, DeliveryInv, NEW i \in LifecycleSlots, StartHandler(i)
  PROVE  DeliveryInv'
<1> USE DEF DeliveryInv
<1>1. /\ UNCHANGED <<call, rows, current, archived>>
      /\ UNCHANGED <<caseStatus, closedReason, alert, timeline>>
  BY DEF StartHandler, storeVars, schedVars
<1>2. /\ lifecycle'[i].pc = "update"
      /\ \A j \in LifecycleSlots : j # i => lifecycle'[j] = lifecycle[j]
      /\ \A j \in LifecycleSlots : lifecycle'[j].jobs = lifecycle[j].jobs
      /\ \A job : InFlight(job)' <=> InFlight(job)
      /\ OneJob'
  BY GotoFacts DEF StartHandler
<1>3. call[i] = "idle"
  BY DEF StartHandler, SyncsFromHandler, At
<1>4. SyncsFromHandler' /\ AlertTasks'
  BY <1>1, <1>2, <1>3 DEF SyncsFromHandler, AlertTasks, At
<1>5. CloseTasks'
  BY <1>1, <1>2, <1>3 DEF CloseTasks, At, Free
<1>6. ScriptClosed' /\ AlertEventMeansTriggered' /\ CloseEventMeansClosed'
  BY <1>1 DEF ScriptClosed, AlertEventMeansTriggered, CloseEventMeansClosed
<1>7. TriggeredAlertAccounted' /\ ScriptCloseAccounted'
  BY <1>1, <1>2 DEF TriggeredAlertAccounted, ScriptCloseAccounted
<1>8. SettledUnscheduled'
  BY <1>1, <1>2 DEF SettledUnscheduled, Settled, Free
<1> QED
  BY <1>2, <1>4, <1>5, <1>6, <1>7, <1>8

LEMMA CloseUpdatesStatusKeeps ==
  ASSUME TypeInv, DeliveryInv, NEW i \in LifecycleSlots, CloseUpdatesStatus(i)
  PROVE  DeliveryInv'
<1> USE DEF DeliveryInv
<1>1. call[i] = "idle" /\ UNCHANGED <<call, rows, current>>
  BY DEF CloseUpdatesStatus, SyncsFromHandler, At, schedVars
<1>2. PICK job \in lifecycle[i].jobs \cap CloseJob :
        \/ /\ MatchesUpdateCaseStatus(job.subject, CloseUser[job.subject])
           /\ UpdateCaseStatus(job.subject, StatusOf(job.action), "script")
           /\ Goto(i, "event")
           /\ UNCHANGED archived
        \/ HandlerFails(i) /\ UNCHANGED storeVars
  BY DEF CloseUpdatesStatus
<1>3. CASE HandlerFails(i) /\ UNCHANGED storeVars
  BY <1>1, <1>3, HandlerFailsKeeps
<1>4. CASE /\ MatchesUpdateCaseStatus(job.subject, CloseUser[job.subject])
           /\ UpdateCaseStatus(job.subject, StatusOf(job.action), "script")
           /\ Goto(i, "event")
           /\ UNCHANGED archived
  <2> DEFINE c == job.subject
  <2>1. c \in Cases /\ StatusOf(job.action) \in ClosedStatus
    BY <1>2, JobType DEF TypeInv
  <2>2. /\ caseStatus'[c] \in ClosedStatus
        /\ \A d \in Cases : d # c => caseStatus'[d] = caseStatus[d]
                                   /\ closedReason'[d] = closedReason[d]
        /\ UNCHANGED <<alert, timeline>>
    BY <1>4, <2>1 DEF UpdateCaseStatus, TypeInv, StoreTypeOK
  <2>3. \A d \in Cases : caseStatus[d] # "LIVE" => caseStatus'[d] # "LIVE"
    BY <2>2 DEF ClosedStatus
  <2>4. \A d \in Cases : caseStatus'[d] = "DELETED" <=> caseStatus[d] = "DELETED" /\ d # c
    BY <2>2 DEF ClosedStatus
  <2>5. caseStatus[c] # "DELETED"
    BY <1>4 DEF MatchesUpdateCaseStatus, Exists
  <2>6. /\ lifecycle'[i].pc = "event"
        /\ \A j \in LifecycleSlots : j # i => lifecycle'[j] = lifecycle[j]
        /\ \A j \in LifecycleSlots : lifecycle'[j].jobs = lifecycle[j].jobs
        /\ \A k : InFlight(k)' <=> InFlight(k)
        /\ OneJob'
    BY <1>4, GotoFacts
  <2>7. \A k \in lifecycle[i].jobs : k = job
    BY <1>2 DEF OneJob
  <2>8. InFlight(job)' /\ job \in CloseJobsOf(c)
    BY <1>2, <2>6 DEF InFlight, CloseJobsOf
  <2>9. SyncsFromHandler'
    BY <1>1, <2>6 DEF SyncsFromHandler, At
  <2>10. AlertTasks'
    <3>1. \A a \in Alerts : Trigger(a) # job
      BY <1>2 DEF Trigger, CloseJob
    <3> QED
      BY <2>2, <2>6, <2>7, <3>1 DEF AlertTasks, At
  <2>11. CloseTasks'
    <3> SUFFICES ASSUME NEW j \in LifecycleSlots, NEW k \in CloseJob,
                        k \in lifecycle[j].jobs
                 PROVE  /\ lifecycle'[j].pc \in {"event", "disable", "sync", "done"}
                             => caseStatus'[k.subject] # "LIVE"
                        /\ lifecycle'[j].pc \in {"disable", "sync", "done"}
                             => timeline[k.subject] > 0 \/ caseStatus'[k.subject] = "DELETED"
                        /\ call[j] = "read" => Free(k.subject, rows)
                        /\ lifecycle'[j].pc = "done"
                             => Free(k.subject, rows) /\ Free(k.subject, current.entries)
      BY <1>1, <2>2, <2>6 DEF CloseTasks, At, Free
    <3>1. CASE j = i
      BY <1>1, <2>2, <2>6, <2>7, <3>1 DEF ClosedStatus
    <3>2. CASE j # i
      <4>1. k.subject \in Cases
        BY DEF CloseJob
      <4> QED
        BY <2>3, <2>4, <2>5, <2>6, <3>2, <4>1 DEF CloseTasks, At
    <3> QED
      BY <3>1, <3>2
  <2>12. ScriptClosed'
    BY <2>2 DEF ScriptClosed
  <2>13. AlertEventMeansTriggered'
    BY <2>2 DEF AlertEventMeansTriggered
  <2>14. CloseEventMeansClosed'
    BY <2>2 DEF CloseEventMeansClosed
  <2>15. TriggeredAlertAccounted'
    BY <1>4, <2>2, <2>6 DEF TriggeredAlertAccounted
  <2>16. ScriptCloseAccounted'
    BY <1>4, <2>2, <2>6, <2>8 DEF ScriptCloseAccounted
  <2>17. SettledUnscheduled'
    BY <1>1, <1>4, <2>2, <2>6, <2>8 DEF SettledUnscheduled, Settled, Free
  <2> QED
    BY <2>6, <2>9, <2>10, <2>11, <2>12, <2>13, <2>14, <2>15, <2>16, <2>17
<1> QED
  BY <1>2, <1>3, <1>4

LEMMA TriggerUpdatesAlertKeeps ==
  ASSUME TypeInv, DeliveryInv, NEW i \in LifecycleSlots, TriggerUpdatesAlert(i)
  PROVE  DeliveryInv'
<1> USE DEF DeliveryInv
<1>1. call[i] = "idle" /\ UNCHANGED <<call, rows, current>>
  BY DEF TriggerUpdatesAlert, SyncsFromHandler, At, schedVars
<1>2. PICK job \in lifecycle[i].jobs \cap TriggerJob :
        \/ /\ MatchesTriggerPriceAlert(job.subject)
           /\ TriggerPriceAlert(job.subject)
           /\ Goto(i, "event")
           /\ UNCHANGED archived
        \/ HandlerFails(i) /\ UNCHANGED storeVars
  BY DEF TriggerUpdatesAlert
<1>3. CASE HandlerFails(i) /\ UNCHANGED storeVars
  BY <1>1, <1>3, HandlerFailsKeeps
<1>4. CASE /\ MatchesTriggerPriceAlert(job.subject)
           /\ TriggerPriceAlert(job.subject)
           /\ Goto(i, "event")
           /\ UNCHANGED archived
  <2> DEFINE a == job.subject
  <2>1. a \in Alerts /\ job = Trigger(a)
    BY <1>2, JobType DEF TypeInv, TriggerJob, Trigger
  <2>2. /\ alert'[a] = "triggered"
        /\ \A b \in Alerts : b # a => alert'[b] = alert[b]
        /\ UNCHANGED <<caseStatus, closedReason, timeline>>
    BY <1>4, <2>1 DEF TriggerPriceAlert, TypeInv, StoreTypeOK
  <2>3. /\ lifecycle'[i].pc = "event"
        /\ \A j \in LifecycleSlots : j # i => lifecycle'[j] = lifecycle[j]
        /\ \A j \in LifecycleSlots : lifecycle'[j].jobs = lifecycle[j].jobs
        /\ \A k : InFlight(k)' <=> InFlight(k)
        /\ OneJob'
    BY <1>4, GotoFacts
  <2>4. \A k \in lifecycle[i].jobs : k = job
    BY <1>2 DEF OneJob
  <2>5. InFlight(Trigger(a))'
    BY <1>2, <2>1, <2>3 DEF InFlight
  <2>6. SyncsFromHandler'
    BY <1>1, <2>3 DEF SyncsFromHandler, At
  <2>7. AlertTasks'
    <3>1. \A b \in Alerts : Trigger(b) \in lifecycle[i].jobs => b = a
      BY <2>4 DEF Trigger
    <3>2. \A b \in Alerts : alert[b] \in {"triggered", "DELETED"}
            => alert'[b] \in {"triggered", "DELETED"}
      BY <2>2
    <3>3. ASSUME NEW j \in LifecycleSlots, j # i, NEW b \in Alerts,
                 Trigger(b) \in lifecycle[j].jobs, lifecycle[j].pc = "done"
          PROVE  timeline[b] > 0 \/ alert'[b] = "DELETED" \/ b = a
      BY <2>2, <3>3 DEF AlertTasks, At
    <3>4. ASSUME NEW j \in LifecycleSlots, j # i,
                 Trigger(a) \in lifecycle[j].jobs, lifecycle[j].pc = "done"
          PROVE  timeline[a] > 0
      <4>1. alert[a] # "DELETED"
        BY <1>4, <2>1 DEF MatchesTriggerPriceAlert
      <4> QED
        BY <2>1, <3>4, <4>1 DEF AlertTasks, At
    <3> QED
      BY <2>2, <2>3, <3>1, <3>2, <3>3, <3>4 DEF AlertTasks, At
  <2>8. CloseTasks'
    <3>1. \A k \in CloseJob : k \notin lifecycle[i].jobs
      BY <2>1, <2>4 DEF Trigger, CloseJob
    <3> QED
      BY <1>1, <2>2, <2>3, <3>1 DEF CloseTasks, At, Free
  <2>9. ScriptClosed' /\ CloseEventMeansClosed'
    BY <2>2 DEF ScriptClosed, CloseEventMeansClosed
  <2>10. AlertEventMeansTriggered'
    BY <2>2 DEF AlertEventMeansTriggered
  <2>11. TriggeredAlertAccounted'
    BY <1>4, <2>2, <2>3, <2>5 DEF TriggeredAlertAccounted
  <2>12. ScriptCloseAccounted' /\ SettledUnscheduled'
    BY <1>1, <1>4, <2>2, <2>3 DEF ScriptCloseAccounted, SettledUnscheduled, Settled, Free
  <2> QED
    BY <2>3, <2>6, <2>7, <2>8, <2>9, <2>10, <2>11, <2>12
<1> QED
  BY <1>2, <1>3, <1>4

LEMMA InsertsEventKeeps ==
  ASSUME TypeInv, DeliveryInv, NEW i \in LifecycleSlots, InsertsEvent(i)
  PROVE  DeliveryInv'
<1> USE DEF DeliveryInv
<1>1. call[i] = "idle" /\ UNCHANGED <<call, rows, current>> /\ At(i, "event")
  BY DEF InsertsEvent, SyncsFromHandler, At, schedVars
<1>2. PICK job \in lifecycle[i].jobs :
        \/ /\ Exists(CaseOf(job.subject))
           /\ CreateTimelineEvent(job.subject)
           /\ Goto(i, IF job \in CloseJob THEN "disable" ELSE "done")
           /\ UNCHANGED archived
        \/ HandlerFails(i) /\ UNCHANGED storeVars
  BY DEF InsertsEvent
<1>3. CASE HandlerFails(i) /\ UNCHANGED storeVars
  BY <1>1, <1>3, HandlerFailsKeeps
<1>4. CASE /\ Exists(CaseOf(job.subject))
           /\ CreateTimelineEvent(job.subject)
           /\ Goto(i, IF job \in CloseJob THEN "disable" ELSE "done")
           /\ UNCHANGED archived
  <2> DEFINE x == job.subject
  <2>1. \/ job \in CloseJob /\ x \in Cases
        \/ job \in TriggerJob /\ x \in Alerts /\ job = Trigger(x)
    BY <1>2, JobType DEF TypeInv, Job, TriggerJob, Trigger
  <2>2. /\ timeline'[x] > 0
        /\ \A y \in Author : y # x => timeline'[y] = timeline[y]
        /\ UNCHANGED <<caseStatus, closedReason, alert>>
    BY <1>4, <2>1 DEF CreateTimelineEvent, TypeInv, StoreTypeOK, Author, Many
  <2>3. \A y \in Cases \cup Alerts : timeline[y] > 0 => timeline'[y] > 0
    BY <2>2 DEF Author
  <2>4. /\ lifecycle'[i].pc = IF job \in CloseJob THEN "disable" ELSE "done"
        /\ \A j \in LifecycleSlots : j # i => lifecycle'[j] = lifecycle[j]
        /\ \A j \in LifecycleSlots : lifecycle'[j].jobs = lifecycle[j].jobs
        /\ \A k : InFlight(k)' <=> InFlight(k)
        /\ OneJob'
    BY <1>4, GotoFacts
  <2>5. \A k \in lifecycle[i].jobs : k = job
    BY <1>2 DEF OneJob
  <2>6. SyncsFromHandler'
    BY <1>1, <2>4 DEF SyncsFromHandler, At
  <2>7. \A b \in Alerts, k \in CloseJob : Trigger(b) # k
    BY DEF Trigger, CloseJob
  <2>8. AlertTasks'
    <3> SUFFICES ASSUME NEW j \in LifecycleSlots, NEW b \in Alerts,
                        Trigger(b) \in lifecycle[j].jobs
                 PROVE  /\ lifecycle'[j].pc \notin {"disable", "sync"}
                        /\ lifecycle'[j].pc = "event" => alert[b] \in {"triggered", "DELETED"}
                        /\ lifecycle'[j].pc = "done" => timeline'[b] > 0 \/ alert[b] = "DELETED"
      BY <2>2, <2>4 DEF AlertTasks, At
    <3>1. CASE j # i
      BY <2>3, <2>4, <3>1 DEF AlertTasks, At
    <3>2. CASE j = i
      <4>1. job = Trigger(b) /\ x = b
        BY <2>5, <3>2 DEF Trigger
      <4> QED
        BY <2>2, <2>4, <2>7, <3>2, <4>1
    <3> QED
      BY <3>1, <3>2
  <2>9. CloseTasks'
    <3> SUFFICES ASSUME NEW j \in LifecycleSlots, NEW k \in CloseJob,
                        k \in lifecycle[j].jobs
                 PROVE  /\ lifecycle'[j].pc \in {"event", "disable", "sync", "done"}
                             => caseStatus[k.subject] # "LIVE"
                        /\ lifecycle'[j].pc \in {"disable", "sync", "done"}
                             => timeline'[k.subject] > 0 \/ caseStatus[k.subject] = "DELETED"
                        /\ call[j] = "read" => Free(k.subject, rows)
                        /\ lifecycle'[j].pc = "done"
                             => Free(k.subject, rows) /\ Free(k.subject, current.entries)
      BY <1>1, <2>2, <2>4 DEF CloseTasks, At, Free
    <3>1. k.subject \in Cases
      BY DEF CloseJob
    <3>2. CASE j # i
      BY <2>3, <2>4, <3>1, <3>2 DEF CloseTasks, At
    <3>3. CASE j = i
      BY <1>1, <2>2, <2>4, <2>5, <3>3 DEF CloseTasks, At
    <3> QED
      BY <3>2, <3>3
  <2>10. ScriptClosed'
    BY <2>2 DEF ScriptClosed
  <2>11. AlertEventMeansTriggered'
    <3>1. x \in Alerts => alert[x] \in {"triggered", "DELETED"}
      <4>1. x \in Alerts => job = Trigger(x)
        BY <2>1, StoreAssumption
      <4> QED
        BY <1>1, <1>2, <4>1 DEF AlertTasks
    <3> QED
      BY <2>2, <3>1 DEF AlertEventMeansTriggered, Author
  <2>12. CloseEventMeansClosed'
    <3>1. x \in Cases => caseStatus[x] \in ClosedStatus
      <4>1. x \in Cases => job \in CloseJob /\ CaseOf(x) = x
        BY <2>1, StoreAssumption DEF CaseOf
      <4>2. x \in Cases => caseStatus[x] # "LIVE" /\ caseStatus[x] # "DELETED"
        BY <1>1, <1>2, <1>4, <4>1 DEF CloseTasks, At, Exists
      <4> QED
        BY <4>2 DEF TypeInv, StoreTypeOK, CaseStatus
    <3> QED
      BY <2>2, <3>1 DEF CloseEventMeansClosed, Author
  <2>13. TriggeredAlertAccounted'
    <3>1. \A a \in Alerts : timeline'[a] = 0 => timeline[a] = 0
      BY <2>2 DEF Author
    <3> QED
      BY <1>4, <2>2, <2>4, <3>1 DEF TriggeredAlertAccounted
  <2>14. ScriptCloseAccounted'
    <3>1. \A c \in Cases : timeline'[c] = 0 => timeline[c] = 0
      BY <2>2 DEF Author
    <3> QED
      BY <1>4, <2>2, <2>4, <3>1 DEF ScriptCloseAccounted
  <2>15. SettledUnscheduled'
    BY <1>1, <1>4, <2>2, <2>4 DEF SettledUnscheduled, Settled, Free
  <2> QED
    BY <2>4, <2>6, <2>8, <2>9, <2>10, <2>11, <2>12, <2>13, <2>14, <2>15
<1> QED
  BY <1>2, <1>3, <1>4

LEMMA CloseDisablesBlocksKeeps ==
  ASSUME TypeInv, DeliveryInv, NEW i \in LifecycleSlots, CloseDisablesBlocks(i)
  PROVE  DeliveryInv'
<1> USE DEF DeliveryInv
<1>1. At(i, "disable") /\ UNCHANGED <<rows, current, archived>>
  BY DEF CloseDisablesBlocks
<1>2. UNCHANGED <<caseStatus, closedReason, alert, timeline>>
  BY DEF CloseDisablesBlocks, DisableMonitorBlocksByCase, UpdateMonitorBlocksEnabledByCase
<1>3. /\ lifecycle'[i].pc = "sync"
      /\ \A j \in LifecycleSlots : j # i => lifecycle'[j] = lifecycle[j]
      /\ \A j \in LifecycleSlots : lifecycle'[j].jobs = lifecycle[j].jobs
      /\ \A job : InFlight(job)' <=> InFlight(job)
      /\ OneJob'
  BY GotoFacts DEF CloseDisablesBlocks
<1>4. /\ call'[i] = "waiting"
      /\ \A j \in LifecycleSlots : j # i => call'[j] = call[j]
  BY LifecycleAssumption
  DEF CloseDisablesBlocks, CallSync, TypeInv, SchedulerInv, SchedulerTypeOK, Callers
<1>5. SyncsFromHandler'
  BY <1>3, <1>4 DEF SyncsFromHandler, At
<1>6. AlertTasks'
  BY <1>1, <1>2, <1>3 DEF AlertTasks, At
<1>7. CloseTasks'
  BY <1>1, <1>2, <1>3, <1>4 DEF CloseTasks, At, Free
<1>8. ScriptClosed' /\ AlertEventMeansTriggered' /\ CloseEventMeansClosed'
  BY <1>2 DEF ScriptClosed, AlertEventMeansTriggered, CloseEventMeansClosed
<1>9. TriggeredAlertAccounted' /\ ScriptCloseAccounted'
  BY <1>1, <1>2, <1>3 DEF TriggeredAlertAccounted, ScriptCloseAccounted
<1>10. SettledUnscheduled'
  BY <1>1, <1>2, <1>3 DEF SettledUnscheduled, Settled, Free
<1> QED
  BY <1>3, <1>5, <1>6, <1>7, <1>8, <1>9, <1>10

LEMMA CloseSyncedKeeps ==
  ASSUME TypeInv, DeliveryInv, NEW i \in LifecycleSlots, CloseSynced(i)
  PROVE  DeliveryInv'
<1> USE DEF DeliveryInv
<1>1. /\ At(i, "sync") /\ call[i] = "read" /\ rows' = {}
      /\ current'.entries = Registered(rows)
      /\ UNCHANGED archived
      /\ UNCHANGED <<caseStatus, closedReason, alert, timeline>>
  BY DEF CloseSynced, Install, storeVars
<1>2. /\ lifecycle'[i].pc = "done"
      /\ \A j \in LifecycleSlots : j # i => lifecycle'[j] = lifecycle[j]
      /\ \A j \in LifecycleSlots : lifecycle'[j].jobs = lifecycle[j].jobs
      /\ \A job : InFlight(job)' <=> InFlight(job)
      /\ OneJob'
  BY GotoFacts DEF CloseSynced
<1>3. /\ call'[i] = "idle"
      /\ \A j \in LifecycleSlots : j # i => call'[j] = call[j]
  BY LifecycleAssumption
  DEF CloseSynced, Install, TypeInv, SchedulerInv, SchedulerTypeOK, Callers
<1>4. \A c : Free(c, rows) => Free(c, rows') /\ Free(c, current'.entries)
  BY <1>1 DEF Free, Registered
<1>5. SyncsFromHandler'
  BY <1>2, <1>3 DEF SyncsFromHandler, At
<1>6. AlertTasks'
  BY <1>1, <1>2 DEF AlertTasks, At
<1>7. CloseTasks'
  <2> SUFFICES ASSUME NEW j \in LifecycleSlots, NEW k \in CloseJob,
                      k \in lifecycle[j].jobs
               PROVE  /\ lifecycle'[j].pc \in {"event", "disable", "sync", "done"}
                           => caseStatus[k.subject] # "LIVE"
                      /\ lifecycle'[j].pc \in {"disable", "sync", "done"}
                           => timeline[k.subject] > 0 \/ caseStatus[k.subject] = "DELETED"
                      /\ call'[j] = "read" => Free(k.subject, rows')
                      /\ lifecycle'[j].pc = "done"
                           => Free(k.subject, rows') /\ Free(k.subject, current'.entries)
    BY <1>1, <1>2 DEF CloseTasks, At, Free
  <2>1. CASE j = i
    BY <1>1, <1>2, <1>3, <1>4, <2>1 DEF CloseTasks, At
  <2>2. CASE j # i
    BY <1>2, <1>3, <1>4, <2>2 DEF CloseTasks, At
  <2> QED
    BY <2>1, <2>2
<1>8. ScriptClosed' /\ AlertEventMeansTriggered' /\ CloseEventMeansClosed'
  BY <1>1 DEF ScriptClosed, AlertEventMeansTriggered, CloseEventMeansClosed
<1>9. TriggeredAlertAccounted' /\ ScriptCloseAccounted'
  BY <1>1, <1>2 DEF TriggeredAlertAccounted, ScriptCloseAccounted
<1>10. SettledUnscheduled'
  <2> SUFFICES ASSUME NEW c \in Cases, closedReason[c] = "script", Settled(c)
               PROVE  Free(c, rows') /\ Free(c, current'.entries)
    BY <1>1, <1>2 DEF SettledUnscheduled, Settled, Free
  <2> QED
    BY <1>4 DEF SettledUnscheduled
<1> QED
  BY <1>2, <1>5, <1>6, <1>7, <1>8, <1>9, <1>10

LEMMA CloseSyncFailsKeeps ==
  ASSUME TypeInv, DeliveryInv, NEW i \in LifecycleSlots, CloseSyncFails(i)
  PROVE  DeliveryInv'
<1>1. /\ call'[i] = "idle"
      /\ \A j \in LifecycleSlots : j # i => call'[j] = call[j]
  BY LifecycleAssumption
  DEF CloseSyncFails, QueryFails, TypeInv, SchedulerInv, SchedulerTypeOK, Callers
<1> QED
  BY <1>1, HandlerFailsKeeps DEF CloseSyncFails, QueryFails

LEMMA StatementFailsKeeps ==
  ASSUME TypeInv, DeliveryInv, NEW i \in LifecycleSlots, StatementFails(i)
  PROVE  DeliveryInv'
<1>1. call[i] = "idle"
  BY DEF StatementFails, DeliveryInv, SyncsFromHandler, At
<1> QED
  BY <1>1, HandlerFailsKeeps DEF StatementFails, schedVars

(* The handler is through: nothing is owed by its task any more.            *)
LEMMA AcknowledgeKeeps ==
  ASSUME TypeInv, DeliveryInv, NEW i \in LifecycleSlots, Acknowledge(i)
  PROVE  DeliveryInv'
<1> USE DEF DeliveryInv
<1>1. /\ At(i, "done") /\ call[i] = "idle"
      /\ UNCHANGED <<call, rows, current, archived>>
      /\ UNCHANGED <<caseStatus, closedReason, alert, timeline>>
  BY DEF Acknowledge, SyncsFromHandler, At, storeVars, schedVars
<1>2. /\ lifecycle'[i] = NoTask
      /\ \A j \in LifecycleSlots : j # i => lifecycle'[j] = lifecycle[j]
  BY DEF Acknowledge, TypeInv, LifecycleTypeOK
<1>3. \A job : InFlight(job) => InFlight(job)' \/ job \in lifecycle[i].jobs
  BY <1>2 DEF InFlight
<1>4. OneJob' /\ SyncsFromHandler' /\ AlertTasks'
  BY <1>1, <1>2 DEF OneJob, SyncsFromHandler, AlertTasks, At, NoTask
<1>5. CloseTasks'
  BY <1>1, <1>2 DEF CloseTasks, At, Free, NoTask
<1>6. ScriptClosed' /\ AlertEventMeansTriggered' /\ CloseEventMeansClosed'
  BY <1>1 DEF ScriptClosed, AlertEventMeansTriggered, CloseEventMeansClosed
<1>7. TriggeredAlertAccounted'
  <2> SUFFICES ASSUME NEW a \in Alerts, alert[a] = "triggered", timeline[a] = 0
               PROVE  InFlight(Trigger(a))' \/ Trigger(a) \in archived
    BY <1>1 DEF TriggeredAlertAccounted
  <2>1. Trigger(a) \notin lifecycle[i].jobs
    BY <1>1 DEF AlertTasks
  <2> QED
    BY <1>3, <2>1 DEF TriggeredAlertAccounted
<1>8. \A c \in Cases : \A job \in CloseJobsOf(c) : job \in lifecycle[i].jobs =>
        /\ timeline[c] > 0 \/ caseStatus[c] = "DELETED"
        /\ Free(c, rows) /\ Free(c, current.entries)
  BY <1>1 DEF CloseTasks, CloseJobsOf, At
<1>9. ScriptCloseAccounted'
  <2> SUFFICES ASSUME NEW c \in Cases, closedReason[c] = "script", timeline[c] = 0
               PROVE  \E job \in CloseJobsOf(c) : InFlight(job)' \/ job \in archived
    BY <1>1 DEF ScriptCloseAccounted, CloseJobsOf
  <2>1. caseStatus[c] # "DELETED"
    BY DEF ScriptClosed, ClosedStatus
  <2>2. \A job \in CloseJobsOf(c) : job \notin lifecycle[i].jobs
    BY <1>8, <2>1
  <2> QED
    BY <1>3, <2>2 DEF ScriptCloseAccounted
<1>10. SettledUnscheduled'
  <2> SUFFICES ASSUME NEW c \in Cases, closedReason[c] = "script",
                      \A job \in CloseJobsOf(c) : ~InFlight(job)' /\ job \notin archived
               PROVE  Free(c, rows) /\ Free(c, current.entries)
    BY <1>1 DEF SettledUnscheduled, Settled, Free, CloseJobsOf
  <2>1. CASE \E job \in CloseJobsOf(c) : job \in lifecycle[i].jobs
    BY <1>8, <2>1
  <2>2. CASE \A job \in CloseJobsOf(c) : job \notin lifecycle[i].jobs
    BY <1>3, <2>2 DEF SettledUnscheduled, Settled
  <2> QED
    BY <2>1, <2>2
<1> QED
  BY <1>4, <1>5, <1>6, <1>7, <1>9, <1>10

LEMMA PollKeeps ==
  ASSUME TypeInv, DeliveryInv, NEW i \in PollSlots, EnqueuePoll(i) \/ PollStep(i)
  PROVE  DeliveryInv'
<1>1. UNCHANGED <<storeVars, schedVars, archived>>
  BY DEF EnqueuePoll, PollStep, StartPoll, ListCases, ListCasesFails, FetchPrices,
         SuccessReached, FailureReached, ReadAlerts, JudgeFails, AlertReached, FinishPoll
<1>2. CASE UNCHANGED lifecycle
  <2>1. Rescheduled
    BY <1>1 DEF Rescheduled, schedVars
  <2> QED
    BY <1>1, <1>2, <2>1, RescheduledKeeps DEF lifecycleVars
<1>3. CASE \E job \in Job : Enqueue(job)
  BY <1>1, <1>3, EnqueueKeeps
<1>4. /\ \A c \in Cases : [action |-> "CLOSE_SUCCESS", subject |-> c] \in Job
      /\ \A c \in Cases : [action |-> "CLOSE_FAILURE", subject |-> c] \in Job
      /\ \A a \in Alerts : [action |-> "TRIGGER_ALERT", subject |-> a] \in Job
  BY DEF Job, CloseJob, TriggerJob
<1>5. UNCHANGED lifecycle \/ \E job \in Job : Enqueue(job)
  BY <1>4
  DEF EnqueuePoll, PollStep, StartPoll, ListCases, ListCasesFails, FetchPrices,
      SuccessReached, FailureReached, ReadAlerts, JudgeFails, AlertReached, FinishPoll
<1> QED
  BY <1>2, <1>3, <1>5

-----------------------------------------------------------------------------
LEMMA NextDeliveryInv == TypeInv /\ TypeInv' /\ DeliveryInv /\ [Next]_vars => DeliveryInv'
<1> SUFFICES ASSUME TypeInv, TypeInv', DeliveryInv, [Next]_vars PROVE DeliveryInv'
  OBVIOUS
<1>1. CASE UNCHANGED vars
  <2>1. Rescheduled /\ UNCHANGED <<storeVars, lifecycleVars>>
    BY <1>1 DEF vars, Rescheduled, schedVars, lifecycleVars
  <2> QED
    BY <2>1, RescheduledKeeps
<1>2. CASE Background /\ UNCHANGED <<storeVars, lifecycleVars, poll, agent, toggling>>
  BY <1>2, BackgroundKeeps
<1>3. CASE (CrashWorker \/ StopWorker) /\ UNCHANGED <<storeVars, toggling>>
  BY <1>3, EndOfProcessKeeps
<1>4. CASE \E i \in LifecycleSlots : LifecycleStep(i)
  BY <1>4, StartHandlerKeeps, CloseUpdatesStatusKeeps, TriggerUpdatesAlertKeeps,
     InsertsEventKeeps, CloseDisablesBlocksKeeps, CloseSyncedKeeps, CloseSyncFailsKeeps,
     AcknowledgeKeeps, StatementFailsKeeps DEF LifecycleStep
<1>5. CASE \E i \in PollSlots : EnqueuePoll(i) \/ PollStep(i)
  BY <1>5, PollKeeps
<1>6. CASE \E i \in AgentSlots :
             /\ AgentStep(i) \/ \E s \in ActiveSchedulers, b \in Blocks : EnqueueAgent(i, s, b)
             /\ UNCHANGED lifecycleVars
  <2>1. UNCHANGED schedVars
    BY <1>6 DEF AgentStep, EnqueueAgent, StartAgent, ReadSnapshot, InsertResult, StampBlock,
                AgentStatementFails, AcknowledgeAgent
  <2> QED
    BY <1>6, <2>1, AgentBenign, BenignKeeps
<1>7. CASE APIStep /\ UNCHANGED <<schedVars, lifecycleVars, poll, agent>>
  BY <1>7, APIBenign, BenignKeeps
<1> QED
  BY <1>1, <1>2, <1>3, <1>4, <1>5, <1>6, <1>7 DEF Next

THEOREM AlwaysDeliveryInv == Spec => []DeliveryInv
<1>1. TypeInv /\ DeliveryInv /\ TypeInv' /\ [Next]_vars => DeliveryInv'
  BY NextDeliveryInv
<1> QED
  BY <1>1, InitDeliveryInv, AlwaysTypeInv, PTL DEF Spec

(* The timeline never reports an alert that triggerAlert has not marked.    *)
THEOREM AlertEventsAreTrue == Spec => []AlertEventMeansTriggered
<1>1. DeliveryInv => AlertEventMeansTriggered
  BY DEF DeliveryInv
<1> QED
  BY <1>1, AlwaysDeliveryInv, PTL

(* triggerAlert loses no timeline entry, whatever fails between its two     *)
(* statements: a task owes it, or asynq has archived one that did.          *)
THEOREM TriggeredAlertsAreAccounted == Spec => []TriggeredAlertAccounted
<1>1. DeliveryInv => TriggeredAlertAccounted
  BY DEF DeliveryInv
<1> QED
  BY <1>1, AlwaysDeliveryInv, PTL

(* The timeline never reports a close of a case that is not closed.         *)
THEOREM CloseEventsAreTrue == Spec => []CloseEventMeansClosed
<1>1. DeliveryInv => CloseEventMeansClosed
  BY DEF DeliveryInv
<1> QED
  BY <1>1, AlwaysDeliveryInv, PTL

(* closeCase loses no timeline entry, whatever fails between its statements. *)
THEOREM ScriptClosesAreAccounted == Spec => []ScriptCloseAccounted
<1>1. DeliveryInv => ScriptCloseAccounted
  BY DEF DeliveryInv
<1> QED
  BY <1>1, AlwaysDeliveryInv, PTL

(* After closeCase no schedule of the worker holds a block of the case, for *)
(* any number of syncs, retries and users around it.                        *)
THEOREM ClosedCasesAreUnscheduled == Spec => []ClosedCaseUnscheduled
<1>1. DeliveryInv => ClosedCaseUnscheduled
  BY DEF DeliveryInv, SettledUnscheduled, Settled, Free, ClosedCaseUnscheduled
<1> QED
  BY <1>1, AlwaysDeliveryInv, PTL
=============================================================================
