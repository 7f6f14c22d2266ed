--------------------------- MODULE LifecycleHandler ---------------------------
(***************************************************************************)
(* monitor:lifecycle tasks.  asynq delivers a task at least once: a handler *)
(* that returns an error, or whose process dies, is run again from its     *)
(* first statement until MaxRetry; then the task is archived and nobody    *)
(* looks at it again.  Each statement of closeCase and triggerAlert is a   *)
(* step; the last step of closeCase is a SyncMonitorSchedules call.        *)
(***************************************************************************)
EXTENDS SchedulerManager

CONSTANTS
  LifecycleSlots,   (* lifecycle tasks in Redis or in a handler at once     *)
  LifecycleRetries, (* asynq.MaxRetry(5)                                    *)
  CloseUser         (* the UserID closeCase puts in UpdateCaseStatusParams  *)

ASSUME LifecycleAssumption ==
  /\ LifecycleSlots = OtherCallers
  /\ LifecycleRetries \in Nat
  /\ CloseUser \in [Cases -> Users \cup {NoUser}]

VARIABLES
  lifecycle, (* the tasks, and where the handler of each one is             *)
  archived   (* the jobs asynq gave up on                                   *)

(* {CaseID, Action, AlertID}: a close is about a case, a trigger about an   *)
(* alert, whose case is AlertCase                                           *)
CloseJob == [action : {"CLOSE_SUCCESS", "CLOSE_FAILURE"}, subject : Cases]
TriggerJob == [action : {"TRIGGER_ALERT"}, subject : Alerts]
Job == CloseJob \cup TriggerJob

LifecyclePC == {"pending", "update", "event", "disable", "sync", "done"}
LifecycleTask == [pc : LifecyclePC, jobs : SUBSET Job, retried : 0..LifecycleRetries]
NoTask == [pc |-> "idle", jobs |-> {}, retried |-> 0]

LifecycleTypeOK ==
  /\ lifecycle \in [LifecycleSlots -> LifecycleTask \cup {NoTask}]
  /\ archived \in SUBSET Job

LifecycleInit ==
  /\ lifecycle = [i \in LifecycleSlots |-> NoTask]
  /\ archived = {}

At(i, pc) == lifecycle[i].pc = pc
InHandler(i) == lifecycle[i].pc \in LifecyclePC \ {"pending"}
Goto(i, pc) == lifecycle' = [lifecycle EXCEPT ![i].pc = pc]

(* client.Enqueue: no Unique option, so the same job may be queued twice.   *)
Enqueue(job) ==
  \E i \in LifecycleSlots :
    /\ At(i, "idle")
    /\ lifecycle' = [lifecycle EXCEPT
                       ![i] = [pc |-> "pending", jobs |-> {job}, retried |-> 0]]

(* Mutant: one retry too many.                                              *)
RetryOnceMore(task) ==
  IF task.retried <= LifecycleRetries
  THEN [pc |-> "pending", jobs |-> task.jobs, retried |-> task.retried + 1]
  ELSE NoTask

(* asynq after an error or an expired lease *)
RetryOrArchive(task) ==
  IF task.retried < LifecycleRetries
  THEN [pc |-> "pending", jobs |-> task.jobs, retried |-> task.retried + 1]
  ELSE NoTask
GivenUp(task) == IF task.retried < LifecycleRetries THEN {} ELSE task.jobs

HandlerFails(i) ==
  /\ lifecycle' = [lifecycle EXCEPT ![i] = RetryOrArchive(lifecycle[i])]
  /\ archived' = archived \cup GivenUp(lifecycle[i])

-----------------------------------------------------------------------------
(* Mutant: a retry goes on after the statement it takes for done.           *)
StartHandlerResuming(i) ==
  /\ proc = "running"
  /\ At(i, "pending")
  /\ Goto(i, IF lifecycle[i].retried > 0 THEN "event" ELSE "update")
  /\ UNCHANGED <<storeVars, schedVars, archived>>

(* HandleLifecycle: the switch on payload.Action *)
StartHandler(i) ==
  /\ proc = "running"
  /\ At(i, "pending")
  /\ Goto(i, "update")
  /\ UNCHANGED <<storeVars, schedVars, archived>>

StatusOf(action) == IF action = "CLOSE_SUCCESS" THEN "CLOSED_SUCCESS" ELSE "CLOSED_FAILURE"

(* Mutant: a case that is closed already leaves nothing to do.              *)
CloseUpdatesStatusOnce(i) ==
  /\ At(i, "update")
  /\ \E job \in lifecycle[i].jobs \cap CloseJob :
       LET c == job.subject IN
       IF caseStatus[c] \in ClosedStatus
       THEN Goto(i, "done") /\ UNCHANGED <<storeVars, archived>>
       ELSE IF MatchesUpdateCaseStatus(c, CloseUser[c])
       THEN /\ UpdateCaseStatus(c, StatusOf(job.action), "script")
            /\ Goto(i, "event")
            /\ UNCHANGED archived
       ELSE HandlerFails(i) /\ UNCHANGED storeVars
  /\ UNCHANGED schedVars

(* 1. cases.status, or ErrNoRows and an error return *)
CloseUpdatesStatus(i) ==
  /\ At(i, "update")
  /\ \E job \in lifecycle[i].jobs \cap CloseJob :
       LET c == job.subject IN
       IF MatchesUpdateCaseStatus(c, CloseUser[c])
       THEN /\ UpdateCaseStatus(c, StatusOf(job.action), "script")
            /\ Goto(i, "event")
            /\ UNCHANGED archived
       ELSE HandlerFails(i) /\ UNCHANGED storeVars
  /\ UNCHANGED schedVars

(* Mutant: an alert that has triggered already leaves nothing to do.        *)
TriggerUpdatesAlertOnce(i) ==
  /\ At(i, "update")
  /\ \E job \in lifecycle[i].jobs \cap TriggerJob :
       IF alert[job.subject] = "untriggered"
       THEN /\ TriggerPriceAlert(job.subject)
            /\ Goto(i, "event")
            /\ UNCHANGED archived
       ELSE Goto(i, "done") /\ UNCHANGED <<storeVars, archived>>
  /\ UNCHANGED schedVars

(* 1. price_alerts.triggered, or ErrNoRows and an error return *)
TriggerUpdatesAlert(i) ==
  /\ At(i, "update")
  /\ \E job \in lifecycle[i].jobs \cap TriggerJob :
       IF MatchesTriggerPriceAlert(job.subject)
       THEN /\ TriggerPriceAlert(job.subject)
            /\ Goto(i, "event")
            /\ UNCHANGED archived
       ELSE HandlerFails(i) /\ UNCHANGED storeVars
  /\ UNCHANGED schedVars

(* 2. the timeline entry: the foreign key refuses it when the case is gone. *)
(* It is the last statement of triggerAlert.                                *)
InsertsEvent(i) ==
  /\ At(i, "event")
  /\ \E job \in lifecycle[i].jobs :
       IF Exists(CaseOf(job.subject))
       THEN /\ CreateTimelineEvent(job.subject)
            /\ Goto(i, IF job \in CloseJob THEN "disable" ELSE "done")
            /\ UNCHANGED archived
       ELSE HandlerFails(i) /\ UNCHANGED storeVars
  /\ UNCHANGED schedVars

(* 3. the blocks of the case, then the call of SyncMonitorSchedules *)
CloseDisablesBlocks(i) ==
  /\ At(i, "disable")
  /\ \E job \in lifecycle[i].jobs : DisableMonitorBlocksByCase(job.subject)
  /\ Goto(i, "sync")
  /\ CallSync(i)
  /\ UNCHANGED <<proc, mu, rows, current, strays, archived>>

CloseSynced(i) ==
  /\ At(i, "sync")
  /\ Install(i)
  /\ Goto(i, "done")
  /\ UNCHANGED <<storeVars, archived>>

(* Mutant: a sync that fails is left to the periodic one.                   *)
CloseSyncFailsLogged(i) ==
  /\ At(i, "sync")
  /\ QueryFails(i)
  /\ Goto(i, "done")
  /\ UNCHANGED <<storeVars, archived>>

CloseSyncFails(i) ==
  /\ At(i, "sync")
  /\ QueryFails(i)
  /\ HandlerFails(i)
  /\ UNCHANGED storeVars

(* The handler has returned nil and asynq removes the task from Redis.      *)
Acknowledge(i) ==
  /\ At(i, "done")
  /\ lifecycle' = [lifecycle EXCEPT ![i] = NoTask]
  /\ UNCHANGED <<storeVars, schedVars, archived>>

(* Mutant: a timeline entry that cannot be written is logged, no more.      *)
StatementFailsLogged(i) ==
  /\ Faults
  /\ lifecycle[i].pc \in {"update", "event", "disable"}
  /\ IF At(i, "event") THEN Goto(i, "done") /\ UNCHANGED archived ELSE HandlerFails(i)
  /\ UNCHANGED <<storeVars, schedVars>>

(* A statement that fails for a reason of its own: the database is away.    *)
StatementFails(i) ==
  /\ Faults
  /\ lifecycle[i].pc \in {"update", "event", "disable"}
  /\ HandlerFails(i)
  /\ UNCHANGED <<storeVars, schedVars>>

-----------------------------------------------------------------------------
(* The end of the process: a crash costs every running task a try, a         *)
(* graceful shutdown puts it back as it was.                                 *)
LifecycleCrash ==
  /\ lifecycle' = [i \in LifecycleSlots |->
                     IF InHandler(i) THEN RetryOrArchive(lifecycle[i]) ELSE lifecycle[i]]
  /\ archived' = archived \cup
                   UNION {GivenUp(lifecycle[i]) : i \in {j \in LifecycleSlots : InHandler(j)}}

LifecycleShutdown ==
  /\ lifecycle' = [i \in LifecycleSlots |->
                     IF InHandler(i) THEN [lifecycle[i] EXCEPT !.pc = "pending"]
                     ELSE lifecycle[i]]
  /\ UNCHANGED archived
=============================================================================
