------------------------------- MODULE DSLPoller -------------------------------
(***************************************************************************)
(* monitor:dsl-poll tasks.  One cycle lists the live cases once, asks for  *)
(* all prices once, and then judges one case after the other against that  *)
(* list: success script, failure script, alerts.  A match is a lifecycle   *)
(* task and not yet a change of the row, so until that task has run the    *)
(* next cycle matches again.                                               *)
(*                                                                         *)
(* evaluateDSL and the price client are stubs in this repository (always   *)
(* false, always an error).  What a real engine may find true, and which   *)
(* cases a real client may price, are the four constants; the shipped      *)
(* program is the instance in which they are empty.                        *)
(***************************************************************************)
EXTENDS LifecycleHandler

CONSTANTS
  PollSlots,     (* poll tasks in Redis or in a handler at once            *)
  PollRetries,   (* asynq.MaxRetry(2)                                      *)
  Priced, MayReachSuccess, MayReachFailure, MayTrigger

ASSUME PollerAssumption ==
  /\ PollRetries \in Nat
  /\ Priced \subseteq Cases
  /\ MayReachSuccess \subseteq Cases
  /\ MayReachFailure \subseteq Cases
  /\ MayTrigger \subseteq Alerts

VARIABLES poll

PollPC == {"pending", "list", "prices", "judge"}
PollTask == [pc : PollPC \cup {"idle"}, retried : 0..PollRetries, live : SUBSET Cases,
             todo : SUBSET Cases, ringing : SUBSET Alerts, failed : SUBSET Cases]
Fresh(pc, retried) == [pc |-> pc, retried |-> retried, live |-> {}, todo |-> {},
                       ringing |-> {}, failed |-> {}]
NoPoll == Fresh("idle", 0)

PollerTypeOK == poll \in [PollSlots -> PollTask]
PollerInit == poll = [i \in PollSlots |-> NoPoll]

Polling(i) == poll[i].pc \in {"list", "prices", "judge"}
AfterPollError(task) == IF task.retried < PollRetries
                        THEN Fresh("pending", task.retried + 1) ELSE NoPoll
PollFails(i) == poll' = [poll EXCEPT ![i] = AfterPollError(poll[i])]

-----------------------------------------------------------------------------
(* The entry every asynq scheduler carries: NewDSLPollerTask, once a minute *)
EnqueuePoll(i) ==
  /\ ActiveSchedulers # {}
  /\ poll[i].pc = "idle"
  /\ poll' = [poll EXCEPT ![i] = Fresh("pending", 0)]
  /\ UNCHANGED <<storeVars, schedVars, lifecycle, archived>>

(* HandleDSLPoller: outside market hours there is nothing to do. *)
StartPoll(i) ==
  /\ proc = "running"
  /\ poll[i].pc = "pending"
  /\ \E isMarketHours \in BOOLEAN :
       poll' = [poll EXCEPT ![i] = IF isMarketHours THEN Fresh("list", poll[i].retried)
                                   ELSE NoPoll]
  /\ UNCHANGED <<storeVars, schedVars, lifecycle, archived>>

ListCases(i) ==
  /\ poll[i].pc = "list"
  /\ poll' = [poll EXCEPT ![i] = IF ListLiveCases = {} THEN NoPoll
                                 ELSE [@ EXCEPT !.pc = "prices", !.live = ListLiveCases]]
  /\ UNCHANGED <<storeVars, schedVars, lifecycle, archived>>

(* FetchPricesBatch: an error only when no price at all came back; a case   *)
(* without a price is skipped.                                              *)
FetchPrices(i) ==
  /\ poll[i].pc = "prices"
  /\ \E priced \in SUBSET (poll[i].live \cap Priced) :
       IF priced = {} THEN PollFails(i)
       ELSE poll' = [poll EXCEPT ![i].pc = "judge", ![i].todo = priced]
  /\ UNCHANGED <<storeVars, schedVars, lifecycle, archived>>

Judging(i, c) == poll[i].pc = "judge" /\ poll[i].ringing = {} /\ c \in poll[i].todo
Judged(i, c) == poll' = [poll EXCEPT ![i].todo = @ \ {c}]

(* evaluateCaseConditions returns after the first script that holds *)
SuccessReached(i, c) ==
  /\ Judging(i, c)
  /\ c \in MayReachSuccess
  /\ Enqueue([action |-> "CLOSE_SUCCESS", subject |-> c])
  /\ Judged(i, c)
  /\ UNCHANGED <<storeVars, schedVars, archived>>

FailureReached(i, c) ==
  /\ Judging(i, c)
  /\ c \in MayReachFailure
  /\ Enqueue([action |-> "CLOSE_FAILURE", subject |-> c])
  /\ Judged(i, c)
  /\ UNCHANGED <<storeVars, schedVars, archived>>

(* ... and otherwise reads the untriggered alerts *)
ReadAlerts(i, c) ==
  /\ Judging(i, c)
  /\ \E ringing \in SUBSET (ListUntriggeredAlertsByCase(c) \cap MayTrigger) :
       poll' = [poll EXCEPT ![i].todo = @ \ {c}, ![i].ringing = ringing]
  /\ UNCHANGED <<storeVars, schedVars, lifecycle, archived>>

AlertReached(i, a) ==
  /\ a \in poll[i].ringing
  /\ Enqueue([action |-> "TRIGGER_ALERT", subject |-> a])
  /\ poll' = [poll EXCEPT ![i].ringing = @ \ {a}]
  /\ UNCHANGED <<storeVars, schedVars, archived>>

(* An error ends the case, not the cycle: Redis is away, or the query fails. *)
JudgeFails(i, c) ==
  /\ Faults
  /\ poll[i].pc = "judge"
  /\ \/ Judging(i, c)
     \/ \E a \in poll[i].ringing : AlertCase[a] = c
  /\ poll' = [poll EXCEPT ![i].todo = @ \ {c}, ![i].ringing = {}, ![i].failed = @ \cup {c}]
  /\ UNCHANGED <<storeVars, schedVars, lifecycle, archived>>

(* The task fails only if every listed case failed. *)
FinishPoll(i) ==
  /\ poll[i].pc = "judge"
  /\ poll[i].todo = {} /\ poll[i].ringing = {}
  /\ IF poll[i].failed = poll[i].live THEN PollFails(i)
     ELSE poll' = [poll EXCEPT ![i] = NoPoll]
  /\ UNCHANGED <<storeVars, schedVars, lifecycle, archived>>

(* "query live cases" fails *)
ListCasesFails(i) ==
  /\ Faults
  /\ poll[i].pc = "list"
  /\ PollFails(i)
  /\ UNCHANGED <<storeVars, schedVars, lifecycle, archived>>

PollerCrash ==
  poll' = [i \in PollSlots |-> IF Polling(i) THEN AfterPollError(poll[i]) ELSE poll[i]]
PollerShutdown ==
  poll' = [i \in PollSlots |-> IF Polling(i) THEN Fresh("pending", poll[i].retried)
                               ELSE poll[i]]
=============================================================================
