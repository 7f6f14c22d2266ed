SPECIFICATION Spec
CONSTANTS
  c1 = c1
  b1 = b1
  b2 = b2
  alice = alice
  Cases = {c1}
  Blocks = {b1, b2}
  Alerts = {}
  BlockCase <- MCBlockCase
  AlertCase <- MCAlertCase
  Users = {alice}
  Owner <- MCOwner
  NoUser = NoUser
  Main = main
  CronJobs = {cron1, cron2}
  OtherCallers = {}
  BadCron = {b2}
  Nobody = nobody
  Faults = TRUE
  Requests = {}
INVARIANT AtMostOneSchedulerRuns
