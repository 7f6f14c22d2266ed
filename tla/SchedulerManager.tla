--------------------------- MODULE SchedulerManager ---------------------------
(***************************************************************************)
(* The worker's SchedulerManager: it keeps one asynq.Scheduler whose       *)
(* entries are the active monitor blocks, and rebuilds it on every         *)
(* SyncMonitorSchedules.  A sync holds sm.mu from the query to the swap;   *)
(* the new scheduler is started by a goroutine of its own (go Run()), and  *)
(* Shutdown of a scheduler that has not been started does nothing.  So a   *)
(* scheduler replaced before its goroutine ran is started later and        *)
(* nothing refers to it any more: it is a stray.                           *)
(***************************************************************************)
EXTENDS CaseStore

CONSTANTS
  Main,        (* the main goroutine: the initial sync                     *)
  CronJobs,    (* runs of the "@every 5m" job that may overlap             *)
  OtherCallers,(* lifecycle handlers, which sync after closing a case      *)
  BadCron,     (* blocks whose cron text asynq's Register refuses          *)
  Nobody,
  Faults       (* may a database statement fail, may the worker crash?     *)

Callers == {Main} \cup CronJobs \cup OtherCallers

ASSUME SchedulerAssumption ==
  /\ Nobody \notin Callers
  /\ Main \notin CronJobs \cup OtherCallers
  /\ CronJobs \cap OtherCallers = {}
  /\ BadCron \subseteq Blocks
  /\ Faults \in BOOLEAN

VARIABLES
  proc,      (* the worker process                                         *)
  mu,        (* who holds sm.mu                                            *)
  call,      (* where each goroutine is in SyncMonitorSchedules            *)
  rows,      (* what the holder of sm.mu has read                          *)
  current,   (* sm.scheduler                                               *)
  strays     (* schedulers replaced before they were started               *)

schedVars == <<proc, mu, call, rows, current, strays>>

NoScheduler == [run |-> "none", entries |-> {}]
Scheduler(states) == [run : states, entries : SUBSET Blocks]

SchedulerTypeOK ==
  /\ proc \in {"down", "starting", "running", "stopping"}
  /\ mu \in Callers \cup {Nobody}
  /\ call \in [Callers -> {"idle", "waiting", "locked", "read"}]
  /\ rows \in SUBSET Blocks
  /\ current \in Scheduler({"none", "new", "active"})
  /\ strays \in SUBSET Scheduler({"new", "active"})

SchedulerInit ==
  /\ proc = "down"
  /\ mu = Nobody
  /\ call = [p \in Callers |-> "idle"]
  /\ rows = {}
  /\ current = NoScheduler
  /\ strays = {}

Up == proc # "down"

-----------------------------------------------------------------------------
(* SyncMonitorSchedules, called by p *)

CallSync(p) == call[p] = "idle" /\ call' = [call EXCEPT ![p] = "waiting"]

(* Mutant: sm.mu is not taken.                                              *)
LockUnguarded(p) ==
  /\ call[p] = "waiting"
  /\ mu' = p
  /\ call' = [call EXCEPT ![p] = "locked"]
  /\ UNCHANGED <<proc, rows, current, strays>>

Lock(p) ==
  /\ call[p] = "waiting"
  /\ mu = Nobody
  /\ mu' = p
  /\ call' = [call EXCEPT ![p] = "locked"]
  /\ UNCHANGED <<proc, rows, current, strays>>

Query(p) ==
  /\ call[p] = "locked"
  /\ rows' = ListActiveMonitorBlocks
  /\ call' = [call EXCEPT ![p] = "read"]
  /\ UNCHANGED <<proc, mu, current, strays>>

(* Mutant: an explicit Unlock at the end in the place of the deferred one.  *)
QueryFailsLocked(p) ==
  /\ Faults
  /\ call[p] = "locked"
  /\ call' = [call EXCEPT ![p] = "idle"]
  /\ proc' = IF p = Main THEN "down" ELSE proc
  /\ UNCHANGED <<mu, rows, current, strays>>

(* "query active monitors" failed: an error return, and the deferred Unlock. *)
(* The initial sync of main is fatal.                                        *)
QueryFails(p) ==
  /\ Faults
  /\ call[p] = "locked"
  /\ mu' = Nobody
  /\ call' = [call EXCEPT ![p] = "idle"]
  /\ proc' = IF p = Main THEN "down" ELSE proc
  /\ UNCHANGED <<rows, current, strays>>

(* A row whose cron text is refused is logged and skipped.                   *)
Registered(read) == read \ BadCron

(* Mutant: the rows are registered with the scheduler that is there.        *)
InstallMerged(p) ==
  /\ call[p] = "read"
  /\ strays' = IF current.run = "new" THEN strays \cup {current} ELSE strays
  /\ current' = [run |-> "new", entries |-> current.entries \cup Registered(rows)]
  /\ rows' = {}
  /\ mu' = Nobody
  /\ call' = [call EXCEPT ![p] = "idle"]
  /\ proc' = IF p = Main THEN "running" ELSE proc

Install(p) ==
  /\ call[p] = "read"
  /\ strays' = IF current.run = "new" THEN strays \cup {current} ELSE strays
  /\ current' = [run |-> "new", entries |-> Registered(rows)]
  /\ rows' = {}
  /\ mu' = Nobody
  /\ call' = [call EXCEPT ![p] = "idle"]
  /\ proc' = IF p = Main THEN "running" ELSE proc

(* The goroutine started by Install gets to Run. *)
RunCurrent ==
  /\ current.run = "new"
  /\ current' = [current EXCEPT !.run = "active"]
  /\ UNCHANGED <<proc, mu, call, rows, strays>>

RunStray(s) ==
  /\ s \in strays
  /\ s.run = "new"
  /\ strays' = (strays \ {s}) \cup {[s EXCEPT !.run = "active"]}
  /\ UNCHANGED <<proc, mu, call, rows, current>>

ActiveSchedulers == {s \in strays \cup {current} : s.run = "active"}

-----------------------------------------------------------------------------
(* The worker process *)

Start ==
  /\ proc = "down"
  /\ proc' = "starting"
  /\ CallSync(Main)
  /\ UNCHANGED <<mu, rows, current, strays>>

CronSync(p) ==
  /\ p \in CronJobs
  /\ proc \in {"running", "stopping"}
  /\ CallSync(p)
  /\ UNCHANGED <<proc, mu, rows, current, strays>>

Signal ==
  /\ proc = "running"
  /\ proc' = "stopping"
  /\ UNCHANGED <<mu, call, rows, current, strays>>

ProcessGone ==
  /\ proc' = "down"
  /\ mu' = Nobody
  /\ call' = [p \in Callers |-> "idle"]
  /\ rows' = {}
  /\ current' = NoScheduler
  /\ strays' = {}

(* sm.Shutdown() takes the mutex, then main returns. *)
Shutdown == proc = "stopping" /\ mu = Nobody /\ ProcessGone

Crash == Faults /\ Up /\ ProcessGone
=============================================================================
