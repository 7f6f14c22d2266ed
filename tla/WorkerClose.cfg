SPECIFICATION Spec
CONSTANTS
  c1 = c1
  alice = alice
  Cases = {c1}
  Blocks = {}
  Alerts = {}
  BlockCase <- MCBlockCase
  AlertCase <- MCAlertCase
  Users = {alice}
  Owner <- MCOwner
  NoUser = NoUser
  Main = main
  CronJobs = {}
  OtherCallers = {l1}
  BadCron = {}
  Nobody = nobody
  Faults = FALSE
  LifecycleSlots = {l1}
  LifecycleRetries = 1
  CloseUser <- Unset
  PollSlots = {p1}
  PollRetries = 0
  Priced = {c1}
  MayReachSuccess = {c1}
  MayReachFailure = {}
  MayTrigger = {}
  AgentSlots = {}
  AgentRetries = 1
  Requests = {}
INVARIANT CloseReachesStatus
