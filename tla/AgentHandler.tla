----------------------------- MODULE AgentHandler -----------------------------
(***************************************************************************)
(* monitor:agent tasks.  The scheduler enqueues one for each of its        *)
(* entries at the entry's cron times; the task carries the case and the    *)
(* block of the row as it was at the last sync.  The handler looks the     *)
(* case up by id alone: neither its status nor the block's flag is read.   *)
(***************************************************************************)
EXTENDS SchedulerManager

CONSTANTS
  AgentSlots,    (* agent tasks in Redis or in a handler at once            *)
  AgentRetries   (* asynq.MaxRetry(3)                                       *)

ASSUME AgentAssumption == AgentRetries \in Nat

VARIABLES agent

AgentPC == {"pending", "snapshot", "event", "stamp", "done"}
AgentTask == [pc : AgentPC \cup {"idle"}, blocks : SUBSET Blocks, retried : 0..AgentRetries]
NoAgent == [pc |-> "idle", blocks |-> {}, retried |-> 0]

AgentTypeOK == agent \in [AgentSlots -> AgentTask]
AgentInit == agent = [i \in AgentSlots |-> NoAgent]

RunningAgent(i) == agent[i].pc \in AgentPC \ {"pending"}

AfterAgentError(task) ==
  IF task.retried < AgentRetries
  THEN [pc |-> "pending", blocks |-> task.blocks, retried |-> task.retried + 1]
  ELSE NoAgent
AgentFails(i) == agent' = [agent EXCEPT ![i] = AfterAgentError(agent[i])]
AgentGoto(i, pc) == agent' = [agent EXCEPT ![i].pc = pc]

EnqueueAgent(i, s, b) ==
  /\ s \in ActiveSchedulers
  /\ b \in s.entries
  /\ agent[i].pc = "idle"
  /\ agent' = [agent EXCEPT ![i] = [pc |-> "pending", blocks |-> {b}, retried |-> 0]]
  /\ UNCHANGED <<storeVars, schedVars>>

StartAgent(i) ==
  /\ proc = "running"
  /\ agent[i].pc = "pending"
  /\ AgentGoto(i, "snapshot")
  /\ UNCHANGED <<storeVars, schedVars>>

(* GetCaseEventSnapshot by id, then executeAgentBlock *)
ReadSnapshot(i) ==
  /\ agent[i].pc = "snapshot"
  /\ \E b \in agent[i].blocks :
       IF Exists(BlockCase[b]) THEN AgentGoto(i, "event") ELSE AgentFails(i)
  /\ UNCHANGED <<storeVars, schedVars>>

InsertResult(i) ==
  /\ agent[i].pc = "event"
  /\ \E b \in agent[i].blocks :
       IF Exists(BlockCase[b])
       THEN CreateTimelineEvent(b) /\ AgentGoto(i, "stamp")
       ELSE AgentFails(i) /\ UNCHANGED storeVars
  /\ UNCHANGED schedVars

(* last_executed_at: a failure is logged and the task succeeds all the same *)
StampBlock(i) ==
  /\ agent[i].pc = "stamp"
  /\ \E b \in agent[i].blocks :
       UpdateMonitorBlockLastExecuted(b) \/ (Faults /\ UNCHANGED storeVars)
  /\ AgentGoto(i, "done")
  /\ UNCHANGED schedVars

AcknowledgeAgent(i) ==
  /\ agent[i].pc = "done"
  /\ agent' = [agent EXCEPT ![i] = NoAgent]
  /\ UNCHANGED <<storeVars, schedVars>>

AgentStatementFails(i) ==
  /\ Faults
  /\ agent[i].pc \in {"snapshot", "event"}
  /\ AgentFails(i)
  /\ UNCHANGED <<storeVars, schedVars>>

AgentCrash ==
  agent' = [i \in AgentSlots |-> IF RunningAgent(i) THEN AfterAgentError(agent[i])
                                 ELSE agent[i]]
AgentShutdown ==
  agent' = [i \in AgentSlots |-> IF RunningAgent(i) THEN [agent[i] EXCEPT !.pc = "pending"]
                                 ELSE agent[i]]
=============================================================================
