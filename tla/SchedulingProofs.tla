--------------------------- MODULE SchedulingProofs ---------------------------
(***************************************************************************)
(* Type correctness of Scheduling, mutual exclusion inside                 *)
(* SyncMonitorSchedules and NoOvertaking, for any number of cases, blocks, *)
(* users, requests and concurrent syncs.                                   *)
(***************************************************************************)
EXTENDS Scheduling, StoreProofs

Inv == StoreTypeOK /\ APITypeOK /\ SchedulerInv

LEMMA InitInv == Init => Inv
<1> SUFFICES ASSUME Init PROVE Inv
  OBVIOUS
<1>1. StoreTypeOK
  BY DEF Init, StoreInit, StoreTypeOK, CaseStatus, Reason, AlertState, Many
<1>2. APITypeOK
  BY DEF Init, APIInit, APITypeOK, NoToggle
<1>3. SchedulerInv
  BY SchedulerInitInv DEF Init
<1> QED
  BY <1>1, <1>2, <1>3 DEF Inv

LEMMA SchedulerStepInv ==
  ASSUME Inv, SchedulerStep, UNCHANGED <<storeVars, toggling>>
  PROVE  Inv'
<1>1. StoreTypeOK' /\ APITypeOK'
  BY DEF Inv, StoreTypeOK, storeVars, APITypeOK
<1>2. SchedulerInv'
  <2> USE DEF Inv
  <2>1. CASE Start
    <3>1. Main \in Callers /\ CallSync(Main)
      BY <2>1 DEF Start, Callers
    <3> QED
      BY <2>1, <3>1, CallSyncInv DEF Start
  <2>2. CASE Signal
    BY <2>2, SignalInv
  <2>3. CASE Shutdown \/ Crash
    BY <2>3, ProcessGoneInv DEF Shutdown, Crash
  <2>4. CASE RunCurrent
    BY <2>4, RunCurrentInv
  <2>5. CASE \E s \in strays : RunStray(s)
    BY <2>5, RunStrayInv
  <2>6. ASSUME NEW p \in CronJobs, CronSync(p) PROVE SchedulerInv'
    <3>1. p \in Callers /\ CallSync(p) /\ proc \in {"running", "stopping"}
      BY <2>6 DEF CronSync, Callers
    <3> QED
      BY <2>6, <3>1, CallSyncInv DEF CronSync
  <2>7. CASE \E p \in Callers : Lock(p)
    BY <2>7, LockInv
  <2>8. CASE \E p \in Callers : Query(p)
    BY <2>8, QueryInv
  <2>9. CASE \E p \in Callers : QueryFails(p)
    BY <2>9, QueryFailsInv
  <2>10. CASE \E p \in Callers : Install(p)
    BY <2>10, InstallInv
  <2> QED
    BY <2>1, <2>2, <2>3, <2>4, <2>5, <2>6, <2>7, <2>8, <2>9, <2>10 DEF SchedulerStep
<1> QED
  BY <1>1, <1>2 DEF Inv

LEMMA APIStepInv ==
  ASSUME Inv, APIStep, UNCHANGED schedVars
  PROVE  Inv'
<1>1. StoreTypeOK' /\ APITypeOK'
  <2> USE DEF Inv
  <2>1. CASE \E u \in Users, c \in Cases, s \in ClosedStatus : Close(u, c, s)
    BY <2>1, CloseType
  <2>2. CASE \E u \in Users, c \in Cases : Delete(u, c)
    BY <2>2, DeleteType
  <2>3. CASE \E b \in Blocks, on \in BOOLEAN : ToggleMonitorBlock(b, on)
    BY <2>3, ToggleMonitorBlockType
  <2>4. CASE \E r \in Requests, c \in Cases, on, keep \in BOOLEAN :
               ToggleCaseMonitoring(r, c, on, keep)
    BY <2>4, ToggleCaseMonitoringType
  <2>5. CASE \E r \in Requests : ToggleCasePolling(r)
    BY <2>5, ToggleCasePollingType
  <2>6. CASE \E r \in Requests : ToggleCasePollingFails(r)
    BY <2>6, ToggleCasePollingFailsType
  <2> QED
    BY <2>1, <2>2, <2>3, <2>4, <2>5, <2>6 DEF APIStep
<1>2. SchedulerInv'
  BY DEF Inv, SchedulerInv, SchedulerTypeOK, MutexHeld, schedVars
<1> QED
  BY <1>1, <1>2 DEF Inv

LEMMA NextInv == Inv /\ [Next]_vars => Inv'
<1> SUFFICES ASSUME Inv, [Next]_vars PROVE Inv'
  OBVIOUS
<1>1. CASE SchedulerStep /\ UNCHANGED <<storeVars, toggling>>
  BY <1>1, SchedulerStepInv
<1>2. CASE APIStep /\ UNCHANGED schedVars
  BY <1>2, APIStepInv
<1>3. CASE UNCHANGED vars
  BY <1>3 DEF vars, storeVars, schedVars, Inv, StoreTypeOK, APITypeOK, SchedulerInv,
              SchedulerTypeOK, MutexHeld
<1> QED
  BY <1>1, <1>2, <1>3 DEF Next

THEOREM AlwaysInv == Spec => []Inv
BY InitInv, NextInv, PTL DEF Spec

(* Every table, every goroutine and every scheduler keeps its type.         *)
THEOREM TypeCorrect == Spec => []TypeOK
<1>1. Inv => TypeOK
  BY DEF Inv, SchedulerInv, TypeOK
<1> QED
  BY <1>1, AlwaysInv, PTL

(* Two goroutines are never between the lock and the unlock of              *)
(* SyncMonitorSchedules at once, failed queries and crashes included.       *)
THEOREM SyncsExclude ==
  Spec => [](\A p, q \in Callers :
               call[p] \in {"locked", "read"} /\ call[q] \in {"locked", "read"} => p = q)
<1>1. Inv => \A p, q \in Callers :
               call[p] \in {"locked", "read"} /\ call[q] \in {"locked", "read"} => p = q
  BY DEF Inv, SchedulerInv, MutexHeld
<1> QED
  BY <1>1, AlwaysInv, PTL

-----------------------------------------------------------------------------
(* No step takes the schedules from under a sync that carries rows.         *)
LEMMA StepDoesNotOvertake ==
  ASSUME Inv, [Next]_vars, NEW p \in Callers, call[p] = "read", call'[p] = "read"
  PROVE  current'.entries = current.entries
<1>1. CASE UNCHANGED schedVars
  BY <1>1 DEF schedVars
<1>2. CASE SchedulerStep
  <2>1. CASE Start \/ Signal \/ (\E s \in strays : RunStray(s))
             \/ (\E q \in CronJobs : CronSync(q))
    BY <2>1 DEF Start, Signal, RunStray, CronSync
  <2>2. CASE \E q \in Callers : Lock(q) \/ Query(q) \/ QueryFails(q)
    BY <2>2 DEF Lock, Query, QueryFails
  <2>3. CASE Shutdown \/ Crash
    BY <2>3 DEF Shutdown, Crash, ProcessGone
  <2>4. CASE RunCurrent
    BY <2>4, RunCurrentInv DEF Inv
  <2>5. CASE \E q \in Callers : Install(q)
    BY <2>5, OnlyHolderInstalls DEF Inv
  <2> QED
    BY <1>2, <2>1, <2>2, <2>3, <2>4, <2>5 DEF SchedulerStep
<1>3. CASE UNCHANGED vars
  BY <1>3 DEF vars, schedVars
<1> QED
  BY <1>1, <1>2, <1>3 DEF Next

(* SyncMonitorSchedules: an older read of the rows never replaces a newer   *)
(* one, however many syncs, crashes and restarts overlap.                   *)
THEOREM SyncsDoNotOvertake == Spec => NoOvertaking
<1>1. Inv /\ [Next]_vars
        => [\A p \in Callers : call[p] = "read" /\ call'[p] = "read"
              => current'.entries = current.entries]_vars
  BY StepDoesNotOvertake
<1> QED
  BY <1>1, AlwaysInv, PTL DEF Spec, NoOvertaking
=============================================================================
