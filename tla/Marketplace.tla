----------------------------- MODULE Marketplace -----------------------------
(***************************************************************************)
(* MarketplaceService, ForkService and MarketplaceStatsWorker over their   *)
(* tables.  Requests are served at once, each in a slot, one statement     *)
(* after another without a transaction; only a fork has one.  A slot's pc  *)
(* names the statement it runs next; reads that decide nothing are left    *)
(* out.  The worker recounts the four counters of items, one statement a   *)
(* counter.                                                                *)
(***************************************************************************)
EXTENDS MarketplaceStore

CONSTANTS
  Slots,         (* requests the API server works on at once                *)
  FirstOwner,    (* resource -> its owner at first, None for an unused id   *)
  Offers,        (* <<user, item type, resource>> that are published        *)
  JobDone, JobPipeline, JobEvents, JobReturn,     (* what a job tells       *)
  MaxRequests,   (* bound on the requests of slots                          *)
  MaxFaults,     (* bound on failed statements and on crashes               *)
  MaxRefreshes   (* bound on the recounts asked for                         *)

ASSUME MarketplaceAssumption ==
  /\ IsFiniteSet(Slots)
  /\ FirstOwner \in [Resources -> Users \cup {None}]
  /\ Offers \subseteq Users \X ItemTypes \X Resources
  /\ JobDone \in [Jobs -> BOOLEAN]
  /\ JobPipeline \in [Jobs -> Resources \cup {None}]
  /\ JobEvents \in [Jobs -> Nat \cup {-1}]       (* -1: the job has no stats *)
  /\ JobReturn \in [Jobs -> Int]
  /\ {MaxRequests, MaxFaults, MaxRefreshes} \subseteq Nat

ASSUME NoTicketAssumption ==
  None \notin [pair : Users \X Items, liked : BOOLEAN, done : BOOLEAN]

VARIABLES
  slot,          (* slot -> [pc, user, item, job]                           *)
  started,       (* requests so far                                         *)
  faults,
  task,          (* the recount in the queue: of an item, AllItems, NoTask  *)
  refreshes,     (* recounts asked for                                      *)
  worker,        (* the handler of the recount                              *)
  disturbed      (* item -> counters that something is known to have put    *)
                 (* off and no recount has put right; "twice" when views of *)
                 (* one user overlapped                                     *)

requestVars == <<slot, started>>
workerVars == <<task, refreshes, worker>>
vars == <<tables, requestVars, faults, workerVars, disturbed>>

NoTask == -1
AllItems == 0
Stages == <<"fork", "like", "use", "view">>

ViewPC == {"incrementView", "logView"}
TogglePC == {"insertLike", "incrementLike", "deleteLike", "decrementLike"}
PC == ViewPC \cup TogglePC \cup {"idle", "answerLike", "answerUnlike", "incrementUse",
        "logUse", "copy", "commit", "setVerification"}

IdleSlot == [pc |-> "idle", user |-> None, item |-> 0, job |-> None]
IdleWorker == [busy |-> FALSE, todo |-> {}, item |-> 0, stage |-> 1, seen |-> -1, failed |-> FALSE]

TypeOK ==
  /\ StoreTypeOK
  /\ slot \in [Slots -> [pc : PC, user : Users \cup {None}, item : {0} \cup Published,
                       job : Jobs \cup {None}]]
  /\ \A s \in Slots : slot[s].pc = "idle" \/ (slot[s].user \in Users /\ slot[s].item # 0)
  /\ \A s \in Slots : slot[s].pc = "setVerification" => slot[s].job # None
  /\ {started, faults, refreshes} \subseteq Nat
  /\ task \in {NoTask, AllItems} \cup Published
  /\ worker \in [busy : BOOLEAN, todo : SUBSET Published, item : {0} \cup Published,
                 stage : 1..4, seen : {-1} \cup Nat, failed : BOOLEAN]
  /\ worker.seen # -1 => worker.item # 0
  /\ disturbed \in [Items -> SUBSET (Counters \cup {"twice"})]

Init ==
  /\ resources = FirstOwner
  /\ items = <<>>
  /\ count = [i \in Items |-> [k \in Counters |-> 0]]
  /\ likes = {}
  /\ recent = [p \in Users \X Items |-> 0]
  /\ views = [i \in Items |-> 0]
  /\ runs = [i \in Items |-> 0]
  /\ slot = [s \in Slots |-> IdleSlot]
  /\ started = 0 /\ faults = 0 /\ refreshes = 0
  /\ task = NoTask
  /\ worker = IdleWorker
  /\ disturbed = [i \in Items |-> {}]

Fault == faults < MaxFaults /\ faults' = faults + 1

Begin(s, pc, u, i, job) ==
  /\ slot[s].pc = "idle" /\ started < MaxRequests
  /\ started' = started + 1
  /\ slot' = [slot EXCEPT ![s] = [pc |-> pc, user |-> u, item |-> i, job |-> job]]

At(s, pc) == slot[s].pc = pc
Goto(s, pc) == slot' = [slot EXCEPT ![s].pc = pc]
Leave(s) == slot' = [slot EXCEPT ![s] = IdleSlot]

Disturb(i, k) == disturbed' = [disturbed EXCEPT ![i] = @ \cup {k}]

(* A fork holds the lock of the row it counted until it commits. *)
Unlocked(i) == \A s \in Slots : ~(At(s, "commit") /\ slot[s].item = i)

-----------------------------------------------------------------------------
(* The counter of a request whose slot is between its two writes. *)
Half(s) ==
  CASE slot[s].pc = "logView" -> {"view"}
    [] slot[s].pc = "logUse" -> {"use"}
    [] slot[s].pc \in {"incrementLike", "decrementLike"} -> {"like"}
    [] OTHER -> {}

Settled(i, k) == \A s \in Slots : slot[s].item = i => k \notin Half(s)

(* No toggle of the item is under way, not even one that has only read.      *)
Untoggled(i) == \A s \in Slots : slot[s].item = i => slot[s].pc \notin TogglePC

(* A statement fails, and with it the request; a fork is rolled back. *)
Fail(s) ==
  /\ Fault
  /\ slot[s].pc \notin {"idle", "incrementView"}
  /\ disturbed' = IF Half(s) = {} THEN disturbed
                  ELSE [disturbed EXCEPT ![slot[s].item] = @ \cup Half(s)]
  /\ Leave(s)
  /\ UNCHANGED <<tables, started, workerVars>>

CrashAPI ==
  /\ Fault
  /\ \E s \in Slots : slot[s].pc # "idle"
  /\ slot' = [s \in Slots |-> IdleSlot]
  /\ disturbed' = [i \in Items |-> disturbed[i] \cup {k \in Counters : ~Settled(i, k)}]
  /\ UNCHANGED <<tables, started, workerVars>>

-----------------------------------------------------------------------------
(* GET /marketplace/:id, by a user who has not seen the item for an hour.   *)
(* An error of either write is only logged.                                 *)

Busy(pcs, u, i) == \E s \in Slots : slot[s].pc \in pcs /\ slot[s].user = u /\ slot[s].item = i

(* Mutant: the hour is not looked at. *)
GetDetailEveryTime(s, u, i) ==
  /\ Begin(s, "incrementView", u, i, None)
  /\ IF Busy(ViewPC, u, i) THEN Disturb(i, "twice") ELSE UNCHANGED disturbed
  /\ UNCHANGED <<tables, faults, workerVars>>

GetDetail(s, u, i) ==
  /\ ~HasRecentView(u, i)
  /\ Begin(s, "incrementView", u, i, None)
  /\ IF Busy(ViewPC, u, i) THEN Disturb(i, "twice") ELSE UNCHANGED disturbed
  /\ UNCHANGED <<tables, faults, workerVars>>

CountView(s) ==
  /\ At(s, "incrementView") /\ Unlocked(slot[s].item)
  /\ count' = Incremented(slot[s].item, "view")
  /\ Goto(s, "logView")
  /\ UNCHANGED <<resources, items, likes, logs, started, faults, workerVars, disturbed>>

MissView(s) ==
  /\ Fault
  /\ At(s, "incrementView")
  /\ Goto(s, "logView")
  /\ Disturb(slot[s].item, "view")
  /\ UNCHANGED <<tables, started, workerVars>>

LogView(s) ==
  /\ At(s, "logView")
  /\ views' = [views EXCEPT ![slot[s].item] = @ + 1]
  /\ recent' = [recent EXCEPT ![<<slot[s].user, slot[s].item>>] = @ + 1]
  /\ Leave(s)
  /\ UNCHANGED <<resources, items, count, likes, runs, started, faults, workerVars, disturbed>>

HourPasses(u, i) ==
  /\ recent[<<u, i>>] > 0
  /\ recent' = [recent EXCEPT ![<<u, i>>] = @ - 1]
  /\ UNCHANGED <<resources, items, count, likes, views, runs, requestVars, faults, workerVars, disturbed>>

-----------------------------------------------------------------------------
(* POST /marketplace/:id/like.  Toggles of one user on one item that overlap *)
(* disturb its counter.                                                      *)

ToggleLike(s, u, i) ==
  /\ Begin(s, IF IsLiked(u, i) THEN "deleteLike" ELSE "insertLike", u, i, None)
  /\ IF Busy(TogglePC, u, i) THEN Disturb(i, "like") ELSE UNCHANGED disturbed
  /\ UNCHANGED <<tables, faults, workerVars>>

InsertLike(s) ==
  /\ At(s, "insertLike")
  /\ likes' = LikeCreated(slot[s].user, slot[s].item)
  /\ Goto(s, "incrementLike")
  /\ UNCHANGED <<resources, items, count, logs, started, faults, workerVars, disturbed>>

CountLike(s) ==
  /\ At(s, "incrementLike") /\ Unlocked(slot[s].item)
  /\ count' = Incremented(slot[s].item, "like")
  /\ Goto(s, "answerLike")
  /\ UNCHANGED <<resources, items, likes, logs, started, faults, workerVars, disturbed>>

RemoveLike(s) ==
  /\ At(s, "deleteLike")
  /\ likes' = LikeDeleted(slot[s].user, slot[s].item)
  /\ Goto(s, "decrementLike")
  /\ UNCHANGED <<resources, items, count, logs, started, faults, workerVars, disturbed>>

UncountLike(s) ==
  /\ At(s, "decrementLike") /\ Unlocked(slot[s].item)
  /\ count' = LikeDecremented(slot[s].item)
  /\ Goto(s, "answerUnlike")
  /\ UNCHANGED <<resources, items, likes, logs, started, faults, workerVars, disturbed>>

AnswerToggle(s) ==
  /\ slot[s].pc \in {"answerLike", "answerUnlike"}
  /\ Leave(s)
  /\ UNCHANGED <<tables, started, faults, workerVars, disturbed>>

-----------------------------------------------------------------------------
(* A run of a resource, counted for the item that publishes it. *)

TrackUsage(s, u, r, type) ==
  /\ \E i \in FindItemIDByResourceID(r, type) : Begin(s, "incrementUse", u, i, None)
  /\ UNCHANGED <<tables, faults, workerVars, disturbed>>

CountUse(s) ==
  /\ At(s, "incrementUse") /\ Unlocked(slot[s].item)
  /\ count' = Incremented(slot[s].item, "use")
  /\ Goto(s, "logUse")
  /\ UNCHANGED <<resources, items, likes, logs, started, faults, workerVars, disturbed>>

LogUse(s) ==
  /\ At(s, "logUse")
  /\ runs' = [runs EXCEPT ![slot[s].item] = @ + 1]
  /\ Leave(s)
  /\ UNCHANGED <<resources, items, count, likes, recent, views, started, faults, workerVars, disturbed>>

-----------------------------------------------------------------------------
(* POST /marketplace/:id/fork.  The status is read before the transaction.   *)
(* Its statements show when it commits, under an id no row has had; at the   *)
(* bounds on items and ids it is rolled back.                                *)

ForkItem(s, u, i) ==
  /\ i \in Active
  /\ Begin(s, "copy", u, i, None)
  /\ UNCHANGED <<tables, faults, workerVars, disturbed>>

Original(s) == items[slot[s].item]
Copyable(s) == KindOf[Original(s).resource] = Original(s).type
               /\ resources[Original(s).resource] # None

CopyResource(s) ==
  /\ At(s, "copy")
  /\ IF Copyable(s) THEN Unlocked(slot[s].item) /\ Goto(s, "commit") ELSE Leave(s)
  /\ UNCHANGED <<tables, started, faults, workerVars, disturbed>>

FreshIds(type) ==
  {r \in Resources : /\ KindOf[r] = type /\ resources[r] = None /\ FirstOwner[r] = None
                     /\ \A i \in Published : items[i].resource # r}

(* Mutant: the copy is not what the new item refers to. *)
CommitForkOfOriginal(s) ==
  /\ At(s, "commit")
  /\ IF Len(items) < MaxItems /\ FreshIds(Original(s).type) # {}
     THEN \E r \in FreshIds(Original(s).type) :
            /\ resources' = [resources EXCEPT ![r] = slot[s].user]
            /\ items' = Append(items, NewItem(slot[s].user, Original(s).type,
                                              Original(s).resource, slot[s].item))
            /\ count' = Incremented(slot[s].item, "fork")
     ELSE UNCHANGED <<resources, items, count>>
  /\ Leave(s)
  /\ UNCHANGED <<likes, logs, started, faults, workerVars, disturbed>>

CommitFork(s) ==
  /\ At(s, "commit")
  /\ IF Len(items) < MaxItems /\ FreshIds(Original(s).type) # {}
     THEN \E r \in FreshIds(Original(s).type) :
            /\ resources' = [resources EXCEPT ![r] = slot[s].user]
            /\ items' = Append(items, NewItem(slot[s].user, Original(s).type, r, slot[s].item))
            /\ count' = Incremented(slot[s].item, "fork")
     ELSE UNCHANGED <<resources, items, count>>
  /\ Leave(s)
  /\ UNCHANGED <<likes, logs, started, faults, workerVars, disturbed>>

-----------------------------------------------------------------------------
(* POST /marketplace/:id/verify *)

(* Mutant: one event too few. *)
MeetsLooseCriteria(job) == JobEvents[job] >= 9 /\ WinRate[job] >= 50 /\ JobReturn[job] >= 0

MeetsCriteria(job) == JobEvents[job] >= 10 /\ WinRate[job] >= 50 /\ JobReturn[job] >= 0

MayVerify(u, i, job) ==
  /\ items[i].user = u
  /\ JobDone[job]
  /\ (items[i].type = "PIPELINE" /\ JobPipeline[job] # None) => items[i].resource = JobPipeline[job]
  /\ JobEvents[job] # -1
  /\ MeetsCriteria(job)

VerifyItem(s, u, i, job) ==
  /\ MayVerify(u, i, job)
  /\ Begin(s, "setVerification", u, i, job)
  /\ UNCHANGED <<tables, faults, workerVars, disturbed>>

GrantBadge(s) ==
  /\ At(s, "setVerification") /\ Unlocked(slot[s].item)
  /\ items' = SetVerification(slot[s].item, slot[s].job)
  /\ Leave(s)
  /\ UNCHANGED <<resources, count, likes, logs, started, faults, workerVars, disturbed>>

-----------------------------------------------------------------------------
(* Requests of one statement.  Publish does not ask whose the resource is.   *)

Publish(u, type, r) ==
  /\ MayCreateItem(type, r)
  /\ items' = CreateItem(u, type, r)
  /\ UNCHANGED <<resources, count, likes, logs, requestVars, faults, workerVars, disturbed>>

DeleteItem(u, i) ==
  /\ Unlocked(i)
  /\ items' = SoftDeleteItem(u, i)
  /\ UNCHANGED <<resources, count, likes, logs, requestVars, faults, workerVars, disturbed>>

(* A block, preset or pipeline is deleted; the foreign keys of items hold.   *)
DeleteResource(r) ==
  /\ KindOf[r] # "JUDGMENT_SCRIPT"
  /\ resources[r] # None
  /\ \A i \in Published : items[i].resource = r => items[i].type # KindOf[r]
  /\ resources' = [resources EXCEPT ![r] = None]
  /\ UNCHANGED <<items, count, likes, logs, requestVars, faults, workerVars, disturbed>>

-----------------------------------------------------------------------------
(* The recount *)

EnqueueRefresh(scope) ==
  /\ task = NoTask /\ refreshes < MaxRefreshes
  /\ task' = scope
  /\ refreshes' = refreshes + 1
  /\ UNCHANGED <<tables, requestVars, faults, worker, disturbed>>

HandleStatsRefresh ==
  /\ ~worker.busy /\ task # NoTask
  /\ worker' = [IdleWorker EXCEPT !.busy = TRUE,
                                  !.todo = IF task = AllItems THEN Active ELSE {task} \cap Published]
  /\ UNCHANGED <<tables, requestVars, faults, task, refreshes, disturbed>>

refreshSingleItem(i) ==
  /\ worker.item = 0 /\ i \in worker.todo
  /\ worker' = [worker EXCEPT !.todo = @ \ {i}, !.item = i, !.stage = 1]
  /\ UNCHANGED <<tables, requestVars, faults, task, refreshes, disturbed>>

(* An UPDATE counts as of its start, and may then wait for the row's lock.   *)
ReadRows ==
  /\ worker.item # 0 /\ worker.seen = -1
  /\ worker' = [worker EXCEPT !.seen = Rows(worker.item, Stages[worker.stage])]
  /\ UNCHANGED <<tables, requestVars, faults, task, refreshes, disturbed>>

NextStage(w) ==
  IF w.stage = 4 THEN [w EXCEPT !.item = 0, !.stage = 1, !.seen = -1]
  ELSE [w EXCEPT !.stage = @ + 1, !.seen = -1]

WriteRows ==
  /\ worker.seen # -1 /\ Unlocked(worker.item)
  /\ LET i == worker.item  k == Stages[worker.stage] IN
     /\ count' = Refreshed(i, k, worker.seen)
     /\ disturbed' = [disturbed EXCEPT ![i] =
          IF worker.seen = Rows(i, k) /\ Settled(i, k) /\ (k = "like" => Untoggled(i))
          THEN @ \ {k} ELSE @ \cup {k}]
  /\ worker' = NextStage(worker)
  /\ UNCHANGED <<resources, items, likes, logs, requestVars, faults, task, refreshes>>

(* Mutant: the error is dropped. *)
RefreshFailsSilently ==
  /\ Fault
  /\ worker.item # 0
  /\ worker' = NextStage(worker)
  /\ UNCHANGED <<tables, requestVars, task, refreshes, disturbed>>

RefreshFails ==
  /\ Fault
  /\ worker.item # 0
  /\ worker' = [NextStage(worker) EXCEPT !.failed = TRUE]
  /\ UNCHANGED <<tables, requestVars, task, refreshes, disturbed>>

(* asynq retries a task that failed. *)
FinishTask ==
  /\ worker.busy /\ worker.item = 0 /\ worker.todo = {}
  /\ task' = IF worker.failed THEN task ELSE NoTask
  /\ worker' = IdleWorker
  /\ UNCHANGED <<tables, requestVars, faults, refreshes, disturbed>>

CrashWorker ==
  /\ Fault
  /\ worker.busy
  /\ worker' = IdleWorker
  /\ UNCHANGED <<tables, requestVars, task, refreshes, disturbed>>

-----------------------------------------------------------------------------
SlotStep(s) ==
  \/ CountView(s) \/ LogView(s)
  \/ InsertLike(s) \/ CountLike(s) \/ RemoveLike(s) \/ UncountLike(s) \/ AnswerToggle(s)
  \/ CountUse(s) \/ LogUse(s)
  \/ CopyResource(s) \/ CommitFork(s)
  \/ GrantBadge(s)

Request(s) ==
  \E u \in Users :
    \/ \E i \in Published :
         \/ GetDetail(s, u, i) \/ ToggleLike(s, u, i) \/ ForkItem(s, u, i)
         \/ \E job \in Jobs : VerifyItem(s, u, i, job)
    \/ \E r \in Resources, type \in ItemTypes : TrackUsage(s, u, r, type)

WorkerStep ==
  \/ HandleStatsRefresh \/ (\E i \in Published : refreshSingleItem(i))
  \/ ReadRows \/ WriteRows \/ FinishTask

Next ==
  \/ \E s \in Slots : Request(s) \/ SlotStep(s) \/ Fail(s) \/ MissView(s)
  \/ CrashAPI
  \/ \E offer \in Offers : Publish(offer[1], offer[2], offer[3])
  \/ \E u \in Users, i \in Published : DeleteItem(u, i) \/ HourPasses(u, i)
  \/ \E r \in Resources : DeleteResource(r)
  \/ \E scope \in {AllItems} \cup Published : EnqueueRefresh(scope)
  \/ WorkerStep \/ RefreshFails \/ CrashWorker

Spec == Init /\ [][Next]_vars

(* asynq serves its queue; requests may stop anywhere. *)
FairSpec == Spec /\ WF_vars(WorkerStep)

-----------------------------------------------------------------------------
Exact(i, k) == count[i][k] = Rows(i, k)

(* A counter says how many rows there are, whenever no request is between   *)
(* its two writes: toggles by different users, forks, runs and views that   *)
(* interleave lose nothing.  Three things may put a counter off until it is *)
(* recounted: one user's toggles of one item that overlap, a failure        *)
(* between two writes, and a recount that meets a request.                  *)
CountersExact ==
  \A i \in Published : \A k \in Counters \ disturbed[i] : Settled(i, k) => Exact(i, k)

(* A user's views of an item count once an hour, unless one of them checked *)
(* before another was logged.                                               *)
ViewsCountOnce ==
  \A u \in Users, i \in Published : recent[<<u, i>>] > 1 => "twice" \in disturbed[i]

(* A fork is an item of its own: it belongs to the user who forked, refers  *)
(* to an older item of its type, and to a copy which that user owns and no  *)
(* other item of that type has.                                             *)
ForksOwnTheirCopy ==
  \A i \in Published : items[i].from # 0 =>
    /\ items[i].from < i
    /\ items[items[i].from].type = items[i].type
    /\ KindOf[items[i].resource] = items[i].type
    /\ resources[items[i].resource] = items[i].user
    /\ \A j \in Published \ {i} : items[j].type = items[i].type => items[j].resource # items[i].resource

(* An item that has the badge has it for a job of its own pipeline that     *)
(* meets the criteria, though the row was read long before the badge was    *)
(* written; a fork does not inherit that of its original.                   *)
BadgeEarned ==
  \A i \in Published : Verified(i) =>
    LET job == items[i].job IN
    /\ JobDone[job] /\ JobEvents[job] >= 10 /\ WinRate[job] >= 50 /\ JobReturn[job] >= 0
    /\ items[i].type = "PIPELINE" => JobPipeline[job] \in {None, items[i].resource}

(* Toggles implement LikeBoard. *)
ticketOf ==
  [s \in Slots |->
     IF slot[s].pc \in TogglePC \cup {"answerLike", "answerUnlike"}
     THEN [pair |-> <<slot[s].user, slot[s].item>>,
           liked |-> slot[s].pc \in {"insertLike", "incrementLike", "answerLike"},
           done |-> slot[s].pc \notin {"insertLike", "deleteLike"}]
     ELSE None]

Board == INSTANCE LikeBoard WITH likes <- likes, ticket <- ticketOf, NoTicket <- None

(* A toggle makes its own pair what it answers, once, and touches no other. *)
TogglesKeepBoard == Board!Spec

(* Once the requests are over, a recount of all items puts every counter of *)
(* an active item right, whatever statements fail and however often the     *)
(* worker crashes on the way.                                               *)
QuietRecount ==
  /\ started = MaxRequests /\ \A s \in Slots : At(s, "idle")
  /\ task = AllItems /\ ~worker.busy
RecountRepairs == QuietRecount ~> \A i \in Active, k \in Counters : Exact(i, k)
=============================================================================
