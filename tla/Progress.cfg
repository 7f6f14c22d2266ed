SPECIFICATION FairScenarioSpec
CONSTANTS
  c1 = c1
  alice = alice
  Cases = {c1}
  Blocks = {b1}
  Alerts = {a1}
  BlockCase <- MCBlockCase
  AlertCase <- MCAlertCase
  Users = {alice}
  Owner <- MCOwner
  NoUser = NoUser
  Main = main
  CronJobs = {cron1}
  OtherCallers = {l1}
  BadCron = {}
  Nobody = nobody
  Faults = TRUE
  LifecycleSlots = {l1}
  LifecycleRetries = 1
  CloseUser <- Unset
  PollSlots = {p1}
  PollRetries = 1
  Priced = {c1}
  MayReachSuccess = {}
  MayReachFailure = {c1}
  MayTrigger = {a1}
  AgentSlots = {g1}
  AgentRetries = 1
  Requests = {r1}
  l1 = l1
  Scenarios = {"alerts", "pausing", "agents"}
PROPERTY TriggeredAlertGetsEvent
PROPERTY InactiveBlockFallsSilent
PROPERTY PausedCaseFallsSilent
