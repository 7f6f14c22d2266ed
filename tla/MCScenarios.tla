----------------------------- MODULE MCScenarios -----------------------------
(***************************************************************************)
(* Runs over several scenarios.  Which of them a behaviour belongs to is   *)
(* chosen at its start, so that their states add up and do not multiply.   *)
(* A scenario limits what users and cron times bring about; whatever has   *)
(* been brought about, the worker is not limited in what it does with it.  *)
(***************************************************************************)
EXTENDS MCMonitoring, FiniteSets

CONSTANTS
  Scenarios,   (* those of the run                                          *)
  l1           (* the lifecycle task of a scenario that has one only        *)

VARIABLE scenario

NoAlerts == \A a \in Alerts : alert[a] # "untriggered"
NoCloseTasks == \A i \in LifecycleSlots : lifecycle[i].jobs \cap CloseJob = {}
OneTask == \A i \in LifecycleSlots \ {l1} : lifecycle[i] = NoTask
NoPolls == poll = [i \in PollSlots |-> NoPoll]
NoAgents == agent = [i \in AgentSlots |-> NoAgent]
NoToggles == toggling = [r \in Requests |-> NoToggle]
NoBlocks == \A b \in Blocks : ~enabled[b]
NoPeriodicSyncs == \A p \in CronJobs : call[p] = "idle"
OneStray == Cardinality(strays) <= 1

Limits ==
  CASE scenario = "alerts"  -> NoBlocks /\ NoPeriodicSyncs /\ NoAgents /\ NoToggles /\ NoCloseTasks
    [] scenario = "closing" -> NoAlerts /\ OneTask /\ NoAgents
    [] scenario = "pausing" -> NoAlerts /\ OneTask /\ NoAgents /\ NoPeriodicSyncs
    [] scenario = "agents"  -> NoAlerts /\ NoPolls /\ NoToggles /\ OneStray

scenarioVars == <<vars, scenario>>

ScenarioInit == Init /\ scenario \in Scenarios /\ Limits
ScenarioNext == Next /\ UNCHANGED scenario /\ Limits'
ScenarioSpec == ScenarioInit /\ [][ScenarioNext]_scenarioVars

(* The fairness of Monitoring, with the periodic syncs of the scenario that *)
(* has them.  No other step it speaks of is stopped by a limit for good.    *)
ScenarioFairness ==
  /\ TaskFairness
  /\ \A p \in CronJobs : WF_vars(scenario = "agents" /\ Quiet(CronSync(p)))

FairScenarioSpec == ScenarioSpec /\ ScenarioFairness
=============================================================================
