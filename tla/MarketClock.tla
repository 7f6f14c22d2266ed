------------------------------ MODULE MarketClock ------------------------------
(***************************************************************************)
(* When a DSL poll does any work.  Two clocks decide: the scheduler enqueues *)
(* a task at the minutes its cron expression names in the scheduler's own  *)
(* time zone, and HandleDSLPoller drops a task that it starts outside the  *)
(* market hours of Seoul.  Time is the minute of the week, counted from     *)
(* Monday 00:00 UTC; the task is taken to start in the minute that enqueued *)
(* it, as it does while a worker is up.                                    *)
(***************************************************************************)
EXTENDS Integers, TLAPS

Week == 7 * 1440

(* asynq.NewScheduler(redisOpt, nil): without SchedulerOpts.Location, UTC   *)
SchedulerOffset == 0
(* kstLocation = time.FixedZone("KST", 9*60*60) *)
KSTOffset == 9 * 60

Local(t, offset) == (t + offset) % Week
Day(t) == t \div 1440          (* 0 is Monday *)
Hour(t) == (t % 1440) \div 60
Minute(t) == t % 60
Weekday(t) == Day(t) \in 0..4

(* "*/1 9-15 * * 1-5" *)
CronFires(t) ==
  LET local == Local(t, SchedulerOffset)
  IN  Weekday(local) /\ Hour(local) \in 9..15

IsMarketHours(t) ==
  LET kst == Local(t, KSTOffset)
  IN  /\ Weekday(kst)
      /\ Hour(kst) \in 9..15
      /\ Hour(kst) = 15 => Minute(kst) <= 30

-----------------------------------------------------------------------------
VARIABLES
  now,      (* the minute of the week                                      *)
  polled    (* did a task of this minute get past the gate?                *)

vars == <<now, polled>>

TypeOK == now \in 0..(Week - 1) /\ polled \in BOOLEAN

Init ==
  /\ now \in 0..(Week - 1)
  /\ polled = (CronFires(now) /\ IsMarketHours(now))

Tick ==
  /\ now' = (now + 1) % Week
  /\ polled' = (CronFires(now') /\ IsMarketHours(now'))

Spec == Init /\ [][Tick]_vars

(* Conditions are polled every minute while the market is open ("once a     *)
(* minute during the session, Monday to Friday 09:00 to 15:59 KST",         *)
(* scheduler.go:45).                                                        *)
MarketHoursPolled == IsMarketHours(now) => polled

(* No task that is run on time gets past the gate: the two clocks never      *)
(* agree, so as shipped the engine never looks at a price.                  *)
NeverPolled == ~polled

-----------------------------------------------------------------------------
(* 09:00 to 15:59 UTC is 18:00 to 00:59 in Seoul. *)
LEMMA ClocksDisagree ==
  ASSUME NEW t \in 0..(Week - 1)
  PROVE  ~(CronFires(t) /\ IsMarketHours(t))
<1>1. SUFFICES ASSUME CronFires(t), IsMarketHours(t) PROVE FALSE
  OBVIOUS
<1>2. Hour(t) \in 9..15
  BY <1>1 DEF CronFires, Local, SchedulerOffset, Week, Hour
<1>3. t % 1440 \in 540..959
  BY <1>2 DEF Hour, Week
<1>4. (t + 540) % 1440 \in 1080..1439 \cup 0..59
  <2>1. PICK d \in 0..6, m \in 540..959 : t = 1440 * d + m
    <3>1. t = 1440 * (t \div 1440) + (t % 1440)
      BY DEF Week
    <3>2. PICK d \in Int : d = t \div 1440
      BY DEF Week
    <3>3. t = 1440 * d + (t % 1440) /\ t \in 0..10079
      BY <3>1, <3>2 DEF Week
    <3>4. PICK m \in 540..959 : m = t % 1440
      BY <1>3
    <3>5. t = 1440 * d + m
      BY <3>3, <3>4
    <3>6. d \in 0..6
      BY <3>3, <3>5
    <3> QED
      BY <3>5, <3>6
  <2>2. CASE m < 900
    <3>1. (1440 * d + (m + 540)) % 1440 = m + 540
      BY <2>2
    <3> QED
      BY <2>1, <2>2, <3>1
  <2>3. CASE m >= 900
    <3>1. (1440 * (d + 1) + (m - 900)) % 1440 = m - 900
      BY <2>3
    <3> QED
      BY <2>1, <2>3, <3>1
  <2> QED
    BY <2>2, <2>3
<1>5. ((t + 540) % 10080) % 1440 = (t + 540) % 1440
  BY DEF Week
<1>6. Hour(Local(t, KSTOffset)) \in 18..23 \cup {0}
  BY <1>4, <1>5 DEF Hour, Local, KSTOffset, Week
<1> QED
  BY <1>1, <1>6 DEF IsMarketHours

(* As shipped, a poll that starts on time is always dropped: NeverPolled is  *)
(* an invariant, for every minute of the week at which the worker starts.   *)
THEOREM PollGateNeverOpens == Spec => []NeverPolled
<1> DEFINE Inv == TypeOK /\ NeverPolled
<1>1. Init => Inv
  BY ClocksDisagree DEF Init, TypeOK, NeverPolled
<1>2. Inv /\ [Tick]_vars => Inv'
  <2> SUFFICES ASSUME Inv, [Tick]_vars PROVE Inv'
    OBVIOUS
  <2>1. CASE Tick
    <3>1. (now + 1) % Week \in 0..(Week - 1)
      BY DEF Week, TypeOK
    <3> QED
      BY <2>1, <3>1, ClocksDisagree DEF Tick, TypeOK, NeverPolled
  <2>2. CASE UNCHANGED vars
    BY <2>2 DEF vars, TypeOK, NeverPolled
  <2> QED
    BY <2>1, <2>2
<1> QED
  BY <1>1, <1>2, PTL DEF Spec
=============================================================================
