SPECIFICATION ScenarioSpec
CONSTANTS
  c1 = c1
  alice = alice
  Cases = {c1}
  Blocks = {b1}
  Alerts = {a1}
  BlockCase <- MCBlockCase
  AlertCase <- MCAlertCase
  Users = {alice}
  Owner <- MCOwner
  NoUser = NoUser
  Main = main
  CronJobs = {cron1}
  OtherCallers = {l1, l2}
  BadCron = {}
  Nobody = nobody
  Faults = TRUE
  LifecycleSlots = {l1, l2}
  LifecycleRetries = 1
  CloseUser <- Bound
  PollSlots = {p1}
  PollRetries = 0
  Priced = {c1}
  MayReachSuccess = {c1}
  MayReachFailure = {}
  MayTrigger = {a1}
  AgentSlots = {}
  AgentRetries = 1
  Requests = {}
  l1 = l1
  Scenarios = {"alerts", "closing"}
INVARIANT TypeOK
INVARIANT AlertEventMeansTriggered
INVARIANT TriggeredAlertAccounted
INVARIANT CloseEventMeansClosed
INVARIANT ScriptCloseAccounted
INVARIANT ClosedCaseUnscheduled
