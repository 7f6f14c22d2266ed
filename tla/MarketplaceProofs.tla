-------------------------- MODULE MarketplaceProofs --------------------------
(***************************************************************************)
(* Types, badges, forks, views, toggles and counters of the marketplace,   *)
(* for any number of users, items, jobs and requests at once.              *)
(***************************************************************************)
EXTENDS Marketplace, TLAPS, FiniteSetTheorems

USE MarketplaceStoreAssumption, MarketplaceAssumption

ItemsOK == items \in Seq(Item) /\ Len(items) <= MaxItems

ASlot == [pc : PC, user : Users \cup {None}, item : {0} \cup Published, job : Jobs \cup {None}]

SlotsOK ==
  /\ slot \in [Slots -> ASlot]
  /\ \A s \in Slots : slot[s].pc = "idle" \/ (slot[s].user \in Users /\ slot[s].item # 0)
  /\ \A s \in Slots : slot[s].pc = "setVerification" => slot[s].job # None

AWorker == [busy : BOOLEAN, todo : SUBSET Published, item : {0} \cup Published,
            stage : 1..4, seen : {-1} \cup Nat, failed : BOOLEAN]

WorkerOK ==
  /\ task \in {NoTask, AllItems} \cup Published
  /\ worker \in AWorker
  /\ worker.seen # -1 => worker.item # 0

CountsOK ==
  /\ count \in [Items -> [Counters -> Nat]]
  /\ disturbed \in [Items -> SUBSET (Counters \cup {"twice"})]

RestOK ==
  /\ resources \in [Resources -> Users \cup {None}]
  /\ likes \subseteq Users \X Items
  /\ recent \in [Users \X Items -> Nat]
  /\ views \in [Items -> Nat]
  /\ runs \in [Items -> Nat]
  /\ {started, faults, refreshes} \subseteq Nat

LEMMA TypeParts == TypeOK <=> ItemsOK /\ SlotsOK /\ WorkerOK /\ CountsOK /\ RestOK
BY DEF TypeOK, StoreTypeOK, ItemsOK, SlotsOK, ASlot, WorkerOK, AWorker, CountsOK, RestOK

(* What the owner of a published item may still change. *)
SameItem(r, q) == /\ r.user = q.user /\ r.type = q.type
                  /\ r.resource = q.resource /\ r.from = q.from

(* Rows of the worker's statements. *)
Recounting == WorkerStep \/ RefreshFails \/ CrashWorker
              \/ \E scope \in {AllItems} \cup Published : EnqueueRefresh(scope)

LEMMA RecountFrame ==
  ASSUME Recounting
  PROVE  UNCHANGED <<resources, items, likes, logs, requestVars>>
BY DEF Recounting, WorkerStep, RefreshFails, CrashWorker, EnqueueRefresh, HandleStatsRefresh,
       refreshSingleItem, ReadRows, WriteRows, FinishTask, tables

LEMMA RequestFrame ==
  ASSUME NEW s \in Slots, Request(s)
  PROVE  UNCHANGED <<tables, faults, workerVars>>
BY DEF Request, GetDetail, ToggleLike, ForkItem, VerifyItem, TrackUsage, logs

LEMMA OneMoreItem ==
  ASSUME ItemsOK, Len(items) < MaxItems, NEW r \in Item, items' = Append(items, r)
  PROVE  /\ ItemsOK'
         /\ Len(items') = Len(items) + 1
         /\ items'[Len(items) + 1] = r
         /\ \A i \in Published : items'[i] = items[i]
BY DEF ItemsOK, Published

ForkedFrom(i) == i = 0 \/ \E s \in Slots : CommitFork(s) /\ slot[s].item = i
Granted(i) == \E s \in Slots : GrantBadge(s) /\ slot[s].item = i /\ items'[i].job = slot[s].job

(* Items are added and change their status and their badge, nothing else.  *)
ItemsStep ==
  /\ ItemsOK'
  /\ Len(items) <= Len(items') /\ Len(items) \in Nat /\ Len(items') \in Nat
  /\ \A i \in Published : i \in Published' /\ SameItem(items'[i], items[i])
  /\ \A i \in Published : items'[i].job = items[i].job \/ Granted(i)
  /\ \A i \in Published' \ Published : items'[i].job = None /\ ForkedFrom(items'[i].from)

LEMMA ItemsMove ==
  ASSUME TypeOK, [Next]_vars
  PROVE  ItemsStep
<1> USE TypeParts
<1> Len(items) \in Nat
  BY DEF ItemsOK
<1>1. CASE UNCHANGED items
  BY <1>1 DEF ItemsOK, SameItem, Published, ItemsStep
<1>2. ASSUME NEW r \in Item, Len(items) < MaxItems, items' = Append(items, r),
             r.job = None, ForkedFrom(r.from)
      PROVE  ItemsStep
  <2>1. /\ ItemsOK' /\ Len(items') = Len(items) + 1 /\ items'[Len(items) + 1] = r
        /\ \A i \in Published : items'[i] = items[i]
    BY <1>2, OneMoreItem
  <2> QED
    BY <1>2, <2>1 DEF SameItem, Published, ItemsStep
<1>3. ASSUME NEW i \in Published, NEW j \in Item, SameItem(j, items[i]),
             items' = [items EXCEPT ![i] = j], j.job = items[i].job \/ Granted(i)
      PROVE  ItemsStep
  <2>1. ItemsOK' /\ Len(items') = Len(items)
    BY <1>3 DEF ItemsOK, Published
  <2>2. items'[i] = j /\ \A k \in Published : k # i => items'[k] = items[k]
    BY <1>3 DEF ItemsOK, Published
  <2> QED
    BY <1>3, <2>1, <2>2 DEF SameItem, Published, ItemsStep
<1>4. CASE \E offer \in Offers : Publish(offer[1], offer[2], offer[3])
  <2>1. PICK offer \in Offers : Publish(offer[1], offer[2], offer[3])
    BY <1>4
  <2>2. NewItem(offer[1], offer[2], offer[3], 0) \in Item
        /\ NewItem(offer[1], offer[2], offer[3], 0).job = None
        /\ ForkedFrom(NewItem(offer[1], offer[2], offer[3], 0).from)
    BY DEF NewItem, Item, Status, ForkedFrom
  <2> QED
    BY <2>1, <2>2, <1>2 DEF Publish, MayCreateItem, CreateItem
<1>5. CASE \E u \in Users, i \in Published : DeleteItem(u, i)
  <2>1. PICK u \in Users, i \in Published : DeleteItem(u, i)
    BY <1>5
  <2>2. items[i] \in Item
    BY DEF ItemsOK, Published
  <2> DEFINE j == [items[i] EXCEPT !.status = IF items[i].user = u THEN "REMOVED" ELSE @]
  <2>3. j \in Item /\ SameItem(j, items[i]) /\ j.job = items[i].job
    BY <2>2 DEF Item, Status, SameItem
  <2>4. items' = [items EXCEPT ![i] = j]
    BY <2>1 DEF DeleteItem, SoftDeleteItem
  <2> QED
    BY <2>3, <2>4, <1>3
<1>6. ASSUME NEW s \in Slots, SlotStep(s), items' # items
      PROVE  CommitFork(s) \/ GrantBadge(s)
  BY <1>6 DEF SlotStep, CountView, LogView, InsertLike, CountLike, RemoveLike, UncountLike,
              AnswerToggle, CountUse, LogUse, CopyResource, tables
<1>7. ASSUME NEW s \in Slots, slot[s].pc # "idle"
      PROVE  slot[s].item \in Published /\ items[slot[s].item] \in Item /\ slot[s].user \in Users
  BY <1>7 DEF SlotsOK, ASlot, ItemsOK, Published
<1>8. ASSUME NEW s \in Slots, CommitFork(s), items' # items
      PROVE  \E r \in Item : Len(items) < MaxItems /\ items' = Append(items, r) /\ r.job = None
                            /\ ForkedFrom(r.from)
  <2>1. At(s, "commit")
    BY <1>8 DEF CommitFork
  <2>2. slot[s].item \in Published /\ Original(s) \in Item /\ slot[s].user \in Users
    BY <2>1, <1>7 DEF At, Original
  <2>3. PICK r \in FreshIds(Original(s).type) :
          Len(items) < MaxItems
          /\ items' = Append(items, NewItem(slot[s].user, Original(s).type, r, slot[s].item))
    BY <1>8 DEF CommitFork
  <2>4. NewItem(slot[s].user, Original(s).type, r, slot[s].item) \in Item
        /\ NewItem(slot[s].user, Original(s).type, r, slot[s].item).job = None
        /\ ForkedFrom(NewItem(slot[s].user, Original(s).type, r, slot[s].item).from)
    BY <1>8, <2>2 DEF ForkedFrom, FreshIds, NewItem, Item, Status, Published, Items, ItemsOK
  <2> QED
    BY <2>3, <2>4
<1>9. ASSUME NEW s \in Slots, GrantBadge(s)
      PROVE  \E i \in Published, j \in Item :
               /\ SameItem(j, items[i]) /\ items' = [items EXCEPT ![i] = j] /\ Granted(i)
  <2>1. At(s, "setVerification")
    BY <1>9 DEF GrantBadge
  <2>2. slot[s].item \in Published /\ items[slot[s].item] \in Item /\ slot[s].job \in Jobs
    BY <2>1, <1>7 DEF At, SlotsOK, ASlot
  <2> DEFINE j == [items[slot[s].item] EXCEPT !.job = slot[s].job]
  <2>3. j \in Item /\ SameItem(j, items[slot[s].item])
    BY <2>2 DEF Item, SameItem
  <2>4. items' = [items EXCEPT ![slot[s].item] = j]
    BY <1>9 DEF GrantBadge, SetVerification
  <2>5. items'[slot[s].item].job = slot[s].job
    BY <2>2, <2>4 DEF ItemsOK, Published, Item
  <2> QED
    BY <1>9, <2>2, <2>3, <2>4, <2>5 DEF Granted
<1>10. CASE \E s \in Slots : SlotStep(s)
  BY <1>10, <1>1, <1>2, <1>3, <1>6, <1>8, <1>9
<1>11. CASE \E s \in Slots : Request(s) \/ Fail(s) \/ MissView(s)
  BY <1>11, <1>1, RequestFrame DEF Fail, MissView, tables
<1>12. CASE \/ CrashAPI \/ \E u \in Users, i \in Published : HourPasses(u, i)
            \/ \E r \in Resources : DeleteResource(r)
  BY <1>12, <1>1 DEF CrashAPI, HourPasses, DeleteResource, tables
<1>13. CASE Recounting
  BY <1>13, <1>1, RecountFrame
<1>14. CASE UNCHANGED vars
  BY <1>14, <1>1 DEF vars, tables
<1> QED
  BY <1>4, <1>5, <1>10, <1>11, <1>12, <1>13, <1>14 DEF Next, Recounting

LEMMA ItemsKept ==
  ASSUME TypeOK, [Next]_vars
  PROVE  /\ ItemsOK'
         /\ Len(items) <= Len(items') /\ Len(items) \in Nat /\ Len(items') \in Nat
         /\ \A i \in Published : i \in Published' /\ SameItem(items'[i], items[i])
BY ItemsMove DEF ItemsStep

LEMMA ServedSlot ==
  ASSUME ItemsOK, SlotsOK, NEW s \in Slots, slot[s].pc # "idle"
  PROVE  /\ slot[s].item \in Published /\ slot[s].item \in Items
         /\ items[slot[s].item] \in Item /\ slot[s].user \in Users
BY DEF SlotsOK, ASlot, ItemsOK, Published, Items

LEMMA PublishedItems ==
  ASSUME ItemsOK
  PROVE  Published \subseteq Items
BY DEF ItemsOK, Published, Items

(* Every step of a slot but its first leaves whom it serves, or the slot.   *)
Onward(s) == \/ Leave(s)
             \/ slot[s].pc # "idle" /\ \E pc \in PC : pc \notin {"idle", "setVerification"} /\ Goto(s, pc)

LEMMA SlotStepMoves ==
  ASSUME NEW s \in Slots, SlotStep(s) \/ Fail(s) \/ MissView(s)
  PROVE  Onward(s)
BY DEF SlotStep, Fail, MissView, CountView, LogView, InsertLike, CountLike, RemoveLike,
       UncountLike, AnswerToggle, CountUse, LogUse, CopyResource, CommitFork, GrantBadge,
       Onward, At, PC, ViewPC, TogglePC

LEMMA RequestMoves ==
  ASSUME NEW s \in Slots, Request(s), ItemsOK
  PROVE  \E pc \in PC, u \in Users, i \in Published, job \in Jobs \cup {None} :
           /\ Begin(s, pc, u, i, job)
           /\ pc = "setVerification" => job # None /\ MayVerify(u, i, job)
           /\ pc \in PC \ {"idle", "logView", "logUse", "incrementLike", "decrementLike",
                           "answerLike", "answerUnlike", "commit"}
BY DEF Request, GetDetail, ToggleLike, ForkItem, VerifyItem, TrackUsage, PC, ViewPC, TogglePC,
       FindItemIDByResourceID, Active

LEMMA SlotsKept ==
  ASSUME TypeOK, [Next]_vars
  PROVE  SlotsOK'
<1> USE TypeParts
<1>0. ASlot \subseteq ASlot'
  BY ItemsKept DEF ASlot
<1>1. ASSUME UNCHANGED slot
      PROVE  SlotsOK'
  BY <1>0, <1>1 DEF SlotsOK
<1>2. IdleSlot \in ASlot'
  BY DEF IdleSlot, ASlot, PC
<1>3. CASE \E s \in Slots : Request(s)
  <2>1. PICK s \in Slots, pc \in PC, u \in Users, i \in Published, job \in Jobs \cup {None} :
          Begin(s, pc, u, i, job) /\ (pc = "setVerification" => job # None)
    BY <1>3, RequestMoves
  <2> DEFINE q == [pc |-> pc, user |-> u, item |-> i, job |-> job]
  <2>2. q \in ASlot' /\ i # 0
    BY ItemsKept DEF ASlot, Published
  <2>3. slot' = [slot EXCEPT ![s] = q]
    BY <2>1 DEF Begin
  <2> QED
    BY <1>0, <2>1, <2>2, <2>3 DEF SlotsOK
<1>4. CASE \E s \in Slots : SlotStep(s) \/ Fail(s) \/ MissView(s)
  <2>1. PICK s \in Slots : Onward(s)
    BY <1>4, SlotStepMoves
  <2>2. CASE Leave(s)
    BY <1>0, <1>2, <2>2 DEF Leave, SlotsOK, IdleSlot
  <2>3. CASE slot[s].pc # "idle" /\ \E pc \in PC : pc \notin {"idle", "setVerification"} /\ Goto(s, pc)
    <3>1. PICK pc \in PC : pc \notin {"idle", "setVerification"} /\ slot' = [slot EXCEPT ![s].pc = pc]
      BY <2>3 DEF Goto
    <3>2. slot[s] \in ASlot /\ slot[s].user \in Users /\ slot[s].item # 0
      BY <2>3 DEF SlotsOK
    <3>3. [slot[s] EXCEPT !.pc = pc] \in ASlot
      BY <3>2 DEF ASlot
    <3>4. slot' \in [Slots -> ASlot']
      BY <1>0, <3>1, <3>3 DEF SlotsOK
    <3>5. slot'[s].pc = pc /\ slot'[s].user = slot[s].user /\ slot'[s].item = slot[s].item
      BY <3>1, <3>2 DEF SlotsOK, ASlot
    <3>6. \A t \in Slots : t # s => slot'[t] = slot[t]
      BY <3>1 DEF SlotsOK
    <3> QED
      BY <2>3, <3>1, <3>2, <3>4, <3>5, <3>6 DEF SlotsOK
  <2> QED
    BY <2>1, <2>2, <2>3 DEF Onward
<1>5. CASE CrashAPI
  BY <1>2, <1>5 DEF CrashAPI, SlotsOK, IdleSlot
<1>6. CASE Recounting
  BY <1>6, <1>1, RecountFrame DEF requestVars
<1>7. CASE \/ \E offer \in Offers : Publish(offer[1], offer[2], offer[3])
           \/ \E u \in Users, i \in Published : DeleteItem(u, i) \/ HourPasses(u, i)
           \/ \E r \in Resources : DeleteResource(r)
  BY <1>7, <1>1 DEF Publish, DeleteItem, HourPasses, DeleteResource, requestVars
<1>8. CASE UNCHANGED vars
  BY <1>8, <1>1 DEF vars, requestVars
<1> QED
  BY <1>3, <1>4, <1>5, <1>6, <1>7, <1>8 DEF Next, Recounting

LEMMA RowsAreNumbers ==
  ASSUME TypeOK, NEW i \in Items, NEW k \in Counters
  PROVE  Rows(i, k) \in Nat
<1> USE TypeParts
<1>1. Len(items) \in Nat
  BY DEF ItemsOK
<1>2. IsFiniteSet(Published)
  BY <1>1, FS_Interval DEF Published
<1> DEFINE J == {j \in Published : items[j].from = i}
           U == {u \in Users : <<u, i>> \in likes}
<1>3. IsFiniteSet(J) /\ IsFiniteSet(U)
  <2> J \in SUBSET Published /\ U \in SUBSET Users
    OBVIOUS
  <2> HIDE DEF J, U
  <2> QED
    BY <1>2, FS_Subset
<1>4. Cardinality(J) \in Nat /\ Cardinality(U) \in Nat
  BY <1>3, FS_CardinalityType
<1> QED
  BY <1>4 DEF Rows, Counters, RestOK

LEMMA WorkerKept ==
  ASSUME TypeOK, [Next]_vars
  PROVE  WorkerOK'
<1> USE TypeParts
<1>0. Published \subseteq Published'
  BY ItemsKept
<1>a. AWorker \subseteq AWorker'
  <2> SUFFICES ASSUME NEW w \in AWorker PROVE w \in AWorker'
    OBVIOUS
  <2> w.todo \in SUBSET Published' /\ w.item \in {0} \cup Published'
    BY <1>0 DEF AWorker
  <2> QED
    BY DEF AWorker
<1>1. CASE UNCHANGED <<task, worker>>
  BY <1>0, <1>a, <1>1 DEF WorkerOK
<1>2. /\ worker = [busy |-> worker.busy, todo |-> worker.todo, item |-> worker.item,
                   stage |-> worker.stage, seen |-> worker.seen, failed |-> worker.failed]
      /\ worker.busy \in BOOLEAN /\ worker.todo \subseteq Published
      /\ worker.item \in {0} \cup Published /\ worker.stage \in 1..4
      /\ worker.seen \in {-1} \cup Nat /\ worker.failed \in BOOLEAN
  BY DEF WorkerOK, AWorker
<1>4. CASE HandleStatsRefresh
  <2> DEFINE T == IF task = AllItems THEN Active ELSE {task} \cap Published
  <2>1. T \in SUBSET Published
    BY DEF Active
  <2>2. worker' = [busy |-> TRUE, todo |-> T, item |-> 0, stage |-> 1, seen |-> -1, failed |-> FALSE]
    BY <1>4 DEF HandleStatsRefresh, IdleWorker
  <2>3. worker' \in AWorker
    BY <2>1, <2>2 DEF AWorker
  <2>4. worker'.seen = -1
    BY <2>2
  <2>5. task' \in {NoTask, AllItems} \cup Published'
    BY <1>0, <1>4 DEF HandleStatsRefresh, WorkerOK
  <2> QED
    BY <1>a, <2>3, <2>4, <2>5 DEF WorkerOK
<1>5. CASE \E i \in Published : refreshSingleItem(i)
  <2>1. PICK i \in Published : refreshSingleItem(i)
    BY <1>5
  <2>2. worker' = [busy |-> worker.busy, todo |-> worker.todo \ {i}, item |-> i, stage |-> 1,
                   seen |-> worker.seen, failed |-> worker.failed]
    BY <1>2, <2>1 DEF refreshSingleItem
  <2>3. worker' \in AWorker
    BY <1>2, <2>2 DEF AWorker
  <2> QED
    BY <1>0, <1>a, <2>1, <2>3 DEF refreshSingleItem, WorkerOK
<1>6. CASE ReadRows
  <2>1. Stages[worker.stage] \in Counters /\ worker.item \in Items
    BY <1>2, <1>6, PublishedItems DEF ReadRows, Stages, Counters
  <2>2. worker' = [busy |-> worker.busy, todo |-> worker.todo, item |-> worker.item,
                   stage |-> worker.stage, seen |-> Rows(worker.item, Stages[worker.stage]),
                   failed |-> worker.failed]
    BY <1>2, <1>6 DEF ReadRows
  <2>3. worker' \in AWorker
    BY <1>2, <2>1, <2>2, RowsAreNumbers DEF AWorker
  <2> QED
    BY <1>0, <1>a, <1>6, <2>3 DEF ReadRows, WorkerOK
<1>7. CASE WriteRows \/ RefreshFails \/ FinishTask \/ CrashWorker
  <2>1. NextStage(worker) \in AWorker
    <3>1. CASE worker.stage = 4
      <4> NextStage(worker) = [busy |-> worker.busy, todo |-> worker.todo, item |-> 0,
                    stage |-> 1, seen |-> -1, failed |-> worker.failed]
        BY <1>2, <3>1 DEF NextStage
      <4> QED
        BY <1>2 DEF AWorker
    <3>2. CASE worker.stage # 4
      <4> NextStage(worker) = [busy |-> worker.busy, todo |-> worker.todo, item |-> worker.item,
                    stage |-> worker.stage + 1, seen |-> -1, failed |-> worker.failed]
        BY <1>2, <3>2 DEF NextStage
      <4> QED
        BY <1>2, <3>2 DEF AWorker
    <3> QED
      BY <3>1, <3>2
  <2>2. [NextStage(worker) EXCEPT !.failed = TRUE] \in AWorker
    BY <2>1 DEF AWorker
  <2>3. IdleWorker \in AWorker /\ IdleWorker.seen = -1
    BY DEF IdleWorker, AWorker
  <2>4. NextStage(worker).seen = -1
    BY <1>2 DEF NextStage
  <2>5. [NextStage(worker) EXCEPT !.failed = TRUE].seen = -1
    BY <2>4
  <2> QED
    BY <1>0, <1>a, <1>7, <2>1, <2>2, <2>3, <2>4, <2>5
       DEF WriteRows, RefreshFails, FinishTask, CrashWorker, WorkerOK
<1>8. CASE \E scope \in {AllItems} \cup Published : EnqueueRefresh(scope)
  BY <1>0, <1>a, <1>8 DEF EnqueueRefresh, WorkerOK
<1>9. CASE Recounting
  BY <1>4, <1>5, <1>6, <1>7, <1>8, <1>9 DEF Recounting, WorkerStep
<1>10. ASSUME NEW s \in Slots, Request(s) \/ SlotStep(s) \/ Fail(s) \/ MissView(s)
       PROVE  UNCHANGED <<task, worker>>
  BY <1>10, RequestFrame DEF workerVars, SlotStep, Fail, MissView, CountView, LogView, InsertLike,
     CountLike, RemoveLike, UncountLike, AnswerToggle, CountUse, LogUse, CopyResource, CommitFork, GrantBadge
<1>11. CASE \/ CrashAPI \/ \E offer \in Offers : Publish(offer[1], offer[2], offer[3])
            \/ \E u \in Users, i \in Published : DeleteItem(u, i) \/ HourPasses(u, i)
            \/ \E r \in Resources : DeleteResource(r)
  BY <1>11, <1>1 DEF CrashAPI, Publish, DeleteItem, HourPasses, DeleteResource, workerVars
<1>12. CASE UNCHANGED vars
  BY <1>12, <1>1 DEF vars, workerVars
<1> QED
  BY <1>1, <1>9, <1>10, <1>11, <1>12 DEF Next, Recounting

LEMMA CountsKept ==
  ASSUME TypeOK, [Next]_vars
  PROVE  CountsOK'
<1> USE TypeParts
<1>1. CASE UNCHANGED <<count, disturbed>>
  BY <1>1 DEF CountsOK
<1>2. ASSUME NEW i \in Items, NEW k \in Counters
      PROVE  /\ Incremented(i, k) \in [Items -> [Counters -> Nat]]
             /\ LikeDecremented(i) \in [Items -> [Counters -> Nat]]
             /\ \A n \in Nat : Refreshed(i, k, n) \in [Items -> [Counters -> Nat]]
             /\ \A D \in SUBSET (Counters \cup {"twice"}) :
                  [disturbed EXCEPT ![i] = D] \in [Items -> SUBSET (Counters \cup {"twice"})]
  <2> count[i] \in [Counters -> Nat] /\ "like" \in Counters
    BY DEF CountsOK, Counters
  <2> [count[i] EXCEPT ![k] = @ + 1] \in [Counters -> Nat]
    OBVIOUS
  <2> [count[i] EXCEPT !["like"] = IF @ > 0 THEN @ - 1 ELSE 0] \in [Counters -> Nat]
    OBVIOUS
  <2> \A n \in Nat : [count[i] EXCEPT ![k] = n] \in [Counters -> Nat]
    OBVIOUS
  <2> QED
    BY DEF CountsOK, Incremented, LikeDecremented, Refreshed
<1>3. {"view", "fork", "use", "like"} \subseteq Counters
  BY DEF Counters
<1>4. ASSUME NEW s \in Slots, SlotStep(s)
      PROVE  CountsOK'
  <2>1. CASE CountView(s) \/ CountLike(s) \/ CountUse(s) \/ UncountLike(s) \/ CommitFork(s)
    <3>1. slot[s].item \in Items
      BY <2>1, ServedSlot DEF CountView, CountLike, CountUse, UncountLike, CommitFork, At
    <3>2. CASE \E k \in Counters : count' = Incremented(slot[s].item, k) /\ UNCHANGED disturbed
      BY <1>2, <3>1, <3>2 DEF CountsOK
    <3>3. CASE count' = LikeDecremented(slot[s].item) /\ UNCHANGED disturbed
      BY <1>2, <1>3, <3>1, <3>3 DEF CountsOK
    <3>4. CASE CommitFork(s)
      <4>1. CASE UNCHANGED count
        BY <1>1, <3>4, <4>1 DEF CommitFork
      <4>2. CASE count' = Incremented(slot[s].item, "fork")
        BY <1>3, <3>2, <3>4, <4>2 DEF CommitFork
      <4> QED
        BY <3>4, <4>1, <4>2 DEF CommitFork
    <3> QED
      BY <1>3, <2>1, <3>2, <3>3, <3>4 DEF CountView, CountLike, CountUse, UncountLike
  <2>2. CASE \/ LogView(s) \/ InsertLike(s) \/ RemoveLike(s) \/ AnswerToggle(s) \/ LogUse(s)
             \/ CopyResource(s) \/ GrantBadge(s)
    BY <1>1, <2>2 DEF LogView, InsertLike, RemoveLike, AnswerToggle, LogUse, CopyResource,
                      GrantBadge, tables
  <2> QED
    BY <1>4, <2>1, <2>2 DEF SlotStep
<1>5. ASSUME NEW s \in Slots, Request(s)
      PROVE  CountsOK'
  <2>1. UNCHANGED count
    BY <1>5, RequestFrame DEF tables
  <2>2. CASE UNCHANGED disturbed
    BY <1>1, <2>1, <2>2
  <2>3. CASE \E i \in Published : Disturb(i, "twice") \/ Disturb(i, "like")
    <3>1. PICK i \in Items, k \in {"twice", "like"} : disturbed' = [disturbed EXCEPT ![i] = @ \cup {k}]
      BY <2>3, PublishedItems DEF Disturb
    <3> QED
      BY <2>1, <3>1 DEF CountsOK, Counters
  <2> QED
    BY <1>5, <2>2, <2>3 DEF Request, GetDetail, ToggleLike, ForkItem, VerifyItem, TrackUsage
<1>6. ASSUME NEW s \in Slots, Fail(s) \/ MissView(s)
      PROVE  CountsOK'
  <2>1. slot[s].pc # "idle"
    BY <1>6 DEF Fail, MissView, At
  <2>2. slot[s].item \in Items
    BY <2>1, ServedSlot
  <2>3. Half(s) \subseteq Counters
    BY DEF Half, Counters
  <2>4. UNCHANGED count
    BY <1>6 DEF Fail, MissView, tables
  <2> QED
    BY <1>1, <1>3, <1>6, <2>2, <2>3, <2>4 DEF Fail, MissView, Disturb, CountsOK
<1>7. CASE CrashAPI
  BY <1>7 DEF CrashAPI, tables, CountsOK
<1>8. CASE WriteRows
  <2>1. worker.item \in Items /\ Stages[worker.stage] \in Counters /\ worker.seen \in Nat
    BY <1>8, PublishedItems DEF WriteRows, WorkerOK, AWorker, Stages, Counters, Unlocked, IdleWorker
  <2> QED
    BY <1>2, <1>8, <2>1 DEF WriteRows, CountsOK
<1>9. CASE Recounting /\ ~WriteRows
  BY <1>1, <1>9 DEF Recounting, WorkerStep, RefreshFails, CrashWorker, EnqueueRefresh,
       HandleStatsRefresh, refreshSingleItem, ReadRows, FinishTask, tables
<1>10. CASE \/ \E offer \in Offers : Publish(offer[1], offer[2], offer[3])
            \/ \E u \in Users, i \in Published : DeleteItem(u, i) \/ HourPasses(u, i)
            \/ \E r \in Resources : DeleteResource(r)
  BY <1>10, <1>1 DEF Publish, DeleteItem, HourPasses, DeleteResource
<1>11. CASE UNCHANGED vars
  BY <1>1, <1>11 DEF vars, tables
<1> QED
  BY <1>4, <1>5, <1>6, <1>7, <1>8, <1>9, <1>10, <1>11 DEF Next, Recounting

LEMMA RestKept ==
  ASSUME TypeOK, [Next]_vars
  PROVE  RestOK'
<1> USE TypeParts
<1>1. ASSUME UNCHANGED <<resources, likes, logs>>, {started', faults', refreshes'} \subseteq Nat
      PROVE  RestOK'
  BY <1>1 DEF RestOK, logs
<1>2. Fault => faults' \in Nat
  BY DEF Fault, RestOK
<1>3. ASSUME NEW s \in Slots, SlotStep(s)
      PROVE  RestOK'
  <2>1. slot[s].pc # "idle"
    BY <1>3 DEF SlotStep, CountView, LogView, InsertLike, CountLike, RemoveLike, UncountLike,
                AnswerToggle, CountUse, LogUse, CopyResource, CommitFork, GrantBadge, At
  <2>2. slot[s].item \in Items /\ slot[s].user \in Users
    BY <2>1, ServedSlot
  <2>3. UNCHANGED <<started, faults, refreshes>>
    BY <1>3 DEF SlotStep, CountView, LogView, InsertLike, CountLike, RemoveLike, UncountLike,
                AnswerToggle, CountUse, LogUse, CopyResource, CommitFork, GrantBadge, workerVars
  <2>4. CASE LogView(s)
    BY <2>2, <2>3, <2>4 DEF LogView, RestOK
  <2>5. CASE InsertLike(s) \/ RemoveLike(s)
    BY <2>2, <2>3, <2>5 DEF InsertLike, RemoveLike, RestOK, logs, LikeCreated, LikeDeleted
  <2>6. CASE LogUse(s)
    BY <2>2, <2>3, <2>6 DEF LogUse, RestOK
  <2>7. CASE CommitFork(s)
    <3>1. resources' \in [Resources -> Users \cup {None}]
      BY <2>2, <2>7 DEF CommitFork, RestOK
    <3> QED
      BY <2>3, <2>7, <3>1 DEF CommitFork, RestOK, logs
  <2>8. CASE \/ CountView(s) \/ CountLike(s) \/ UncountLike(s) \/ AnswerToggle(s) \/ CountUse(s)
             \/ CopyResource(s) \/ GrantBadge(s)
    <3>1. UNCHANGED <<resources, likes, logs>>
      BY <2>8 DEF CountView, CountLike, UncountLike, AnswerToggle, CountUse, CopyResource,
                  GrantBadge, tables
    <3> QED
      BY <1>1, <2>3, <3>1 DEF RestOK
  <2> QED
    BY <1>3, <2>4, <2>5, <2>6, <2>7, <2>8 DEF SlotStep
<1>4. ASSUME NEW s \in Slots, Request(s)
      PROVE  RestOK'
  <2>1. started' \in Nat
    BY <1>4 DEF Request, GetDetail, ToggleLike, ForkItem, VerifyItem, TrackUsage, Begin, RestOK
  <2> QED
    <3>1. UNCHANGED <<resources, likes, logs, refreshes>> /\ faults' = faults
      BY <1>4, RequestFrame DEF tables, workerVars
    <3> QED BY <1>1, <2>1, <3>1 DEF RestOK, logs
<1>5. CASE CrashAPI \/ \E s \in Slots : Fail(s) \/ MissView(s)
  <2>1. UNCHANGED <<tables, started, workerVars>> /\ Fault
    BY <1>5 DEF CrashAPI, Fail, MissView
  <2>2. UNCHANGED <<resources, likes, logs, started, refreshes>>
    BY <2>1 DEF tables, workerVars
  <2> QED
    BY <1>1, <1>2, <2>1, <2>2 DEF RestOK
<1>6. CASE Recounting
  <2>1. CASE RefreshFails \/ CrashWorker
    BY <1>1, <1>2, <2>1 DEF RefreshFails, CrashWorker, tables, requestVars, RestOK
  <2>2. CASE \E scope \in {AllItems} \cup Published : EnqueueRefresh(scope)
    BY <1>1, <2>2 DEF EnqueueRefresh, tables, requestVars, RestOK
  <2>3. CASE WorkerStep
    <3>1. UNCHANGED <<resources, likes, logs, requestVars, faults, refreshes>>
      BY <2>3 DEF WorkerStep, HandleStatsRefresh, refreshSingleItem, ReadRows, WriteRows,
                  FinishTask, tables
    <3> QED
      BY <1>1, <3>1 DEF requestVars, RestOK
  <2> QED
    BY <1>6, <2>1, <2>2, <2>3 DEF Recounting
<1>7. CASE \E u \in Users, i \in Published : HourPasses(u, i)
  <2>1. PICK u \in Users, i \in Items : HourPasses(u, i)
    BY <1>7, PublishedItems
  <2>2. recent' \in [Users \X Items -> Nat]
    BY <2>1 DEF HourPasses, RestOK
  <2> QED
    BY <2>1, <2>2 DEF HourPasses, RestOK, requestVars, workerVars
<1>8. CASE \E r \in Resources : DeleteResource(r)
  BY <1>8 DEF DeleteResource, RestOK, requestVars, workerVars, logs
<1>9. CASE \/ \E offer \in Offers : Publish(offer[1], offer[2], offer[3])
           \/ \E u \in Users, i \in Published : DeleteItem(u, i)
  BY <1>1, <1>9 DEF Publish, DeleteItem, RestOK, requestVars, workerVars
<1>10. CASE UNCHANGED vars
  BY <1>1, <1>10 DEF vars, tables, RestOK, requestVars, workerVars
<1> QED
  BY <1>3, <1>4, <1>5, <1>6, <1>7, <1>8, <1>9, <1>10 DEF Next, Recounting

LEMMA InitTyped == Init => TypeOK
<1> SUFFICES ASSUME Init PROVE TypeOK
  OBVIOUS
<1>1. ItemsOK
  BY DEF Init, ItemsOK
<1>2. SlotsOK
  BY DEF Init, SlotsOK, ASlot, IdleSlot, PC
<1>3. WorkerOK
  BY DEF Init, WorkerOK, AWorker, IdleWorker
<1>4. CountsOK
  BY DEF Init, CountsOK
<1>5. RestOK
  BY DEF Init, RestOK
<1> QED
  BY <1>1, <1>2, <1>3, <1>4, <1>5, TypeParts

LEMMA NextTyped == TypeOK /\ [Next]_vars => TypeOK'
<1> SUFFICES ASSUME TypeOK, [Next]_vars PROVE TypeOK'
  OBVIOUS
<1>1. (ItemsOK /\ SlotsOK /\ WorkerOK /\ CountsOK /\ RestOK)'
  BY ItemsKept, SlotsKept, WorkerKept, CountsKept, RestKept
<1> QED
  BY <1>1 DEF TypeOK, StoreTypeOK, ItemsOK, SlotsOK, ASlot, WorkerOK, AWorker, CountsOK, RestOK

(* Every variable keeps its type. *)
THEOREM TypeCorrect == Spec => []TypeOK
BY InitTyped, NextTyped, PTL DEF Spec

-----------------------------------------------------------------------------
(* Badges *)

BadgeInv ==
  /\ BadgeEarned
  /\ \A s \in Slots : At(s, "setVerification") => MayVerify(slot[s].user, slot[s].item, slot[s].job)

(* What a request has found about item and job does not change. *)
LEMMA MayVerifyStays ==
  ASSUME TypeOK, [Next]_vars, NEW u, NEW i \in Published, NEW job, MayVerify(u, i, job)
  PROVE  MayVerify(u, i, job)'
<1>1. SameItem(items'[i], items[i])
  BY ItemsKept
<1> QED
  BY <1>1 DEF MayVerify, MeetsCriteria, SameItem

LEMMA BadgeNext ==
  ASSUME TypeOK, BadgeInv, [Next]_vars
  PROVE  BadgeInv'
<1> USE TypeParts
<1>1. BadgeEarned'
  <2> SUFFICES ASSUME NEW i \in Published', items'[i].job # None
               PROVE  LET job == items'[i].job IN
                      /\ JobDone[job] /\ JobEvents[job] >= 10 /\ WinRate[job] >= 50 /\ JobReturn[job] >= 0
                      /\ items'[i].type = "PIPELINE" => JobPipeline[job] \in {None, items'[i].resource}
    BY DEF BadgeEarned, Verified
  <2>1. i \in Published /\ SameItem(items'[i], items[i])
    BY ItemsMove DEF ItemsStep
  <2>2. CASE items'[i].job = items[i].job
    BY <2>1, <2>2 DEF BadgeInv, BadgeEarned, Verified, SameItem
  <2>3. CASE Granted(i)
    <3>1. PICK s \in Slots : GrantBadge(s) /\ slot[s].item = i /\ items'[i].job = slot[s].job
      BY <2>3 DEF Granted
    <3>2. MayVerify(slot[s].user, i, slot[s].job)
      BY <3>1 DEF GrantBadge, BadgeInv
    <3>3. items'[i].type = items[i].type /\ items'[i].resource = items[i].resource
      BY <2>1 DEF SameItem
    <3> QED
      BY <3>1, <3>2, <3>3 DEF MayVerify, MeetsCriteria
  <2> QED
    BY <2>1, <2>2, <2>3, ItemsMove DEF ItemsStep
<1>2. ASSUME NEW s \in Slots, slot'[s].pc = "setVerification"
      PROVE  MayVerify(slot[s].user, slot[s].item, slot[s].job)' 
  <2>1. CASE slot'[s] = slot[s]
    <3>1. slot[s].item \in Published
      BY <1>2, <2>1, ServedSlot
    <3>2. MayVerify(slot[s].user, slot[s].item, slot[s].job)
      BY <1>2, <2>1 DEF BadgeInv, At
    <3> QED
      BY <2>1, <3>1, <3>2, MayVerifyStays DEF MayVerify
  <2>2. CASE \E t \in Slots : Request(t)
    <3>1. PICK t \in Slots, pc \in PC, u \in Users, i \in Published, job \in Jobs \cup {None} :
            Begin(t, pc, u, i, job) /\ (pc = "setVerification" => MayVerify(u, i, job))
      BY <2>2, RequestMoves
    <3>2. slot' = [slot EXCEPT ![t] = [pc |-> pc, user |-> u, item |-> i, job |-> job]]
      BY <3>1 DEF Begin
    <3>3. CASE s = t
      <4>1. slot'[s] = [pc |-> pc, user |-> u, item |-> i, job |-> job]
        BY <3>2, <3>3 DEF SlotsOK
      <4>2. MayVerify(u, i, job)
        BY <1>2, <3>1, <4>1
      <4>3. items'[i].user = items[i].user /\ items'[i].type = items[i].type
            /\ items'[i].resource = items[i].resource
        BY ItemsKept DEF SameItem
      <4> QED
        BY <4>1, <4>2, <4>3 DEF MayVerify
    <3>4. CASE s # t
      BY <2>1, <3>2, <3>4 DEF SlotsOK
    <3> QED
      BY <3>3, <3>4
  <2>3. CASE \E t \in Slots : SlotStep(t) \/ Fail(t) \/ MissView(t)
    <3>1. PICK t \in Slots : Onward(t)
      BY <2>3, SlotStepMoves
    <3>2. CASE s = t
      BY <1>2, <3>1, <3>2 DEF Onward, Leave, Goto, IdleSlot, SlotsOK, ASlot
    <3>3. CASE s # t
      BY <2>1, <3>1, <3>3 DEF Onward, Leave, Goto, SlotsOK
    <3> QED
      BY <3>2, <3>3
  <2>4. CASE CrashAPI
    BY <1>2, <2>4 DEF CrashAPI, IdleSlot
  <2>5. CASE UNCHANGED slot
    BY <2>1, <2>5
  <2>6. CASE Recounting
    BY <2>5, <2>6, RecountFrame DEF requestVars
  <2>7. CASE \/ \E offer \in Offers : Publish(offer[1], offer[2], offer[3])
             \/ \E u \in Users, i \in Published : DeleteItem(u, i) \/ HourPasses(u, i)
             \/ \E r \in Resources : DeleteResource(r)
             \/ UNCHANGED vars
    BY <2>5, <2>7 DEF Publish, DeleteItem, HourPasses, DeleteResource, requestVars, vars
  <2> QED
    BY <2>2, <2>3, <2>4, <2>6, <2>7 DEF Next, Recounting
<1> QED
  BY <1>1, <1>2 DEF BadgeInv, At

(* Whoever has the badge has earned it, whatever happened to the item       *)
(* between the check and the write.                                         *)
THEOREM BadgesAreEarned == Spec => []BadgeEarned
<1>1. Init => BadgeInv
  BY DEF Init, BadgeInv, BadgeEarned, Published, At, IdleSlot
<1>2. BadgeInv => BadgeEarned
  BY DEF BadgeInv
<1>3. TypeOK /\ BadgeInv /\ [Next]_vars => BadgeInv'
  BY BadgeNext
<1> QED
  BY <1>1, <1>2, <1>3, TypeCorrect, PTL DEF Spec

-----------------------------------------------------------------------------
(* Forks *)

ForkOwnsCopy(i) ==
  /\ items[i].from < i
  /\ items[items[i].from].type = items[i].type
  /\ KindOf[items[i].resource] = items[i].type
  /\ resources[items[i].resource] = items[i].user
  /\ \A j \in Published \ {i} : items[j].type = items[i].type => items[j].resource # items[i].resource

LEMMA ForkParts == ForksOwnTheirCopy <=> \A i \in Published : items[i].from # 0 => ForkOwnsCopy(i)
BY DEF ForksOwnTheirCopy, ForkOwnsCopy

LEMMA ForkOfPublished ==
  ASSUME TypeOK, NEW i \in Published, items[i].from # 0, ForkOwnsCopy(i)
  PROVE  items[i].from \in Published /\ items[i].resource \in Resources /\ items[i].user \in Users
<1>1. Len(items) \in Nat /\ items[i] \in Item
  BY TypeParts DEF ItemsOK, Published
<1>2. items[i].from \in 1..MaxItems /\ items[i].from < i
  BY <1>1 DEF Item, Items, ForkOwnsCopy
<1> QED
  BY <1>1, <1>2 DEF Item, Published

LEMMA SameForks ==
  ASSUME TypeOK, ForksOwnTheirCopy, [Next]_vars, Len(items') = Len(items),
         UNCHANGED resources \/ \E r \in Resources : DeleteResource(r)
  PROVE  ForksOwnTheirCopy'
<1> SUFFICES ASSUME NEW i \in Published', items'[i].from # 0
             PROVE  ForkOwnsCopy(i)'
  BY DEF ForksOwnTheirCopy, ForkOwnsCopy
<1>1. Published' = Published /\ \A j \in Published : SameItem(items'[j], items[j])
  BY ItemsKept DEF Published
<1>2. ForkOwnsCopy(i)
  BY <1>1, ForkParts DEF SameItem
<1>3. items[i].from \in Published /\ items[i].resource \in Resources /\ items[i].user # None
  BY <1>1, <1>2, ForkOfPublished DEF SameItem
<1>4. resources'[items[i].resource] = resources[items[i].resource]
  BY <1>1, <1>2, <1>3, TypeParts DEF DeleteResource, ForkOwnsCopy, RestOK
<1> QED
  BY <1>1, <1>2, <1>3, <1>4 DEF ForkOwnsCopy, SameItem

(* A new item, of a resource of its own or published as it is. *)
LEMMA MoreForks ==
  ASSUME TypeOK, ForksOwnTheirCopy, NEW q \in Item, Len(items) < MaxItems,
         items' = Append(items, q),
         \A i \in Published : items[i].type = q.type => items[i].resource # q.resource,
         \A i \in Published : resources'[items[i].resource] = resources[items[i].resource],
         q.from # 0 => /\ q.from \in Published
                       /\ items[q.from].type = q.type
                       /\ KindOf[q.resource] = q.type
                       /\ resources'[q.resource] = q.user
  PROVE  ForksOwnTheirCopy'
<1>1. /\ ItemsOK' /\ Len(items') = Len(items) + 1 /\ items'[Len(items) + 1] = q
      /\ \A i \in Published : items'[i] = items[i]
  BY TypeParts, OneMoreItem
<1>2. Len(items) \in Nat
  BY TypeParts DEF ItemsOK
<1>3. Published' = Published \cup {Len(items) + 1} /\ Len(items) + 1 \notin Published
  BY <1>1, <1>2 DEF Published
<1> SUFFICES ASSUME NEW i \in Published', items'[i].from # 0
             PROVE  ForkOwnsCopy(i)'
  BY DEF ForksOwnTheirCopy, ForkOwnsCopy
<1>4. CASE i \in Published
  <2>1. ForkOwnsCopy(i)
    BY <1>1, <1>4, ForkParts
  <2>2. items[i].from \in Published
    BY <1>1, <1>4, <2>1, ForkOfPublished
  <2>3. \A j \in Published' \ {i} :
          items'[j].type = items'[i].type => items'[j].resource # items'[i].resource
    <3> SUFFICES ASSUME NEW j \in Published' \ {i}, items'[j].type = items'[i].type
                 PROVE  items'[j].resource # items'[i].resource
      OBVIOUS
    <3>1. items'[i] = items[i]
      BY <1>1, <1>4
    <3>2. CASE j \in Published
      <4>1. items'[j] = items[j] /\ j \in Published \ {i}
        BY <1>1, <3>2
      <4> QED
        BY <2>1, <3>1, <4>1 DEF ForkOwnsCopy
    <3>3. CASE j = Len(items) + 1
      <4>1. items'[j] = q
        BY <1>1, <3>3
      <4> QED
        BY <1>4, <3>1, <4>1
    <3> QED
      BY <1>3, <3>2, <3>3
  <2>4. items'[i] = items[i] /\ items'[items[i].from] = items[items[i].from]
        /\ resources'[items[i].resource] = resources[items[i].resource]
    BY <1>1, <1>4, <2>2
  <2> QED
    BY <2>1, <2>3, <2>4 DEF ForkOwnsCopy
<1>5. CASE i = Len(items) + 1
  BY <1>1, <1>2, <1>3, <1>5 DEF ForkOwnsCopy, Published
<1> QED
  BY <1>3, <1>4, <1>5

LEMMA ForksNext ==
  ASSUME TypeOK, ForksOwnTheirCopy, [Next]_vars
  PROVE  ForksOwnTheirCopy'
<1> USE TypeParts
<1>1. CASE UNCHANGED <<resources, items>>
  BY <1>1, SameForks
<1>2. CASE \E r \in Resources : DeleteResource(r)
  BY <1>2, SameForks DEF DeleteResource
<1>3. CASE \E offer \in Offers : Publish(offer[1], offer[2], offer[3])
  <2>1. PICK offer \in Offers : Publish(offer[1], offer[2], offer[3])
    BY <1>3
  <2> DEFINE q == NewItem(offer[1], offer[2], offer[3], 0)
  <2>2. q \in Item /\ q.from = 0 /\ q.type = offer[2] /\ q.resource = offer[3]
    BY DEF NewItem, Item, Status
  <2>3. Len(items) < MaxItems /\ items' = Append(items, q) /\ UNCHANGED resources
    BY <2>1 DEF Publish, MayCreateItem, CreateItem
  <2>4. \A i \in Published : items[i].type = q.type => items[i].resource # q.resource
    BY <2>1, <2>2 DEF Publish, MayCreateItem
  <2> HIDE DEF q
  <2> QED
    BY <2>2, <2>3, <2>4, MoreForks
<1>4. ASSUME NEW s \in Slots, CommitFork(s), ~UNCHANGED <<resources, items>>
      PROVE  ForksOwnTheirCopy'
  <2>1. slot[s].item \in Published /\ Original(s) \in Item /\ slot[s].user \in Users
    BY <1>4, ServedSlot DEF CommitFork, At, Original
  <2>2. PICK r \in FreshIds(Original(s).type) :
          /\ Len(items) < MaxItems
          /\ resources' = [resources EXCEPT ![r] = slot[s].user]
          /\ items' = Append(items, NewItem(slot[s].user, Original(s).type, r, slot[s].item))
    BY <1>4 DEF CommitFork
  <2>3. /\ r \in Resources /\ KindOf[r] = Original(s).type
        /\ \A i \in Published : items[i].resource # r
    BY <2>2 DEF FreshIds
  <2> DEFINE q == NewItem(slot[s].user, Original(s).type, r, slot[s].item)
  <2>4. q \in Item /\ q.from = slot[s].item /\ q.type = Original(s).type /\ q.resource = r
        /\ q.user = slot[s].user
    BY <2>1, <2>3 DEF NewItem, Item, Status, Published, Items, ItemsOK
  <2>5. items' = Append(items, q)
    BY <2>2
  <2> HIDE DEF q
  <2>6. \A i \in Published : resources'[items[i].resource] = resources[items[i].resource]
    BY <2>2, <2>3 DEF RestOK, ItemsOK, Published, Item
  <2>7. resources'[r] = slot[s].user
    BY <2>2, <2>3 DEF RestOK
  <2>8. items[slot[s].item].type = q.type
    BY <2>4 DEF Original
  <2> QED
    BY <2>1, <2>2, <2>3, <2>4, <2>5, <2>6, <2>7, <2>8, MoreForks
<1>5. ASSUME NEW s \in Slots, SlotStep(s), ~CommitFork(s)
      PROVE  UNCHANGED resources /\ Len(items') = Len(items)
  BY <1>5 DEF SlotStep, CountView, LogView, InsertLike, CountLike, RemoveLike, UncountLike,
       AnswerToggle, CountUse, LogUse, CopyResource, GrantBadge, SetVerification, tables, ItemsOK
<1>6. CASE \E s \in Slots : SlotStep(s)
  BY <1>1, <1>4, <1>5, <1>6, SameForks
<1>7. CASE \E u \in Users, i \in Published : DeleteItem(u, i)
  BY <1>7, SameForks DEF DeleteItem, SoftDeleteItem, ItemsOK
<1>8. CASE \E s \in Slots : Request(s) \/ Fail(s) \/ MissView(s)
  BY <1>1, <1>8, RequestFrame DEF Fail, MissView, tables
<1>9. CASE CrashAPI \/ \E u \in Users, i \in Published : HourPasses(u, i)
  BY <1>1, <1>9 DEF CrashAPI, HourPasses, tables
<1>10. CASE Recounting
  BY <1>1, <1>10, RecountFrame
<1>11. CASE UNCHANGED vars
  BY <1>1, <1>11 DEF vars, tables
<1> QED
  BY <1>2, <1>3, <1>6, <1>7, <1>8, <1>9, <1>10, <1>11 DEF Next, Recounting

(* A fork keeps a copy of its own, whoever publishes, forks or deletes at   *)
(* the same time.                                                           *)
THEOREM ForksKeepTheirCopy == Spec => []ForksOwnTheirCopy
<1>1. Init => ForksOwnTheirCopy
  BY DEF Init, ForksOwnTheirCopy, Published
<1> QED
  BY <1>1, ForksNext, TypeCorrect, PTL DEF Spec

-----------------------------------------------------------------------------
(* Views *)

Viewing(u, i) == {s \in Slots : slot[s].pc \in ViewPC /\ slot[s].user = u /\ slot[s].item = i}

(* While no views of one user overlap, a user's view is counted and logged  *)
(* alone, and only if there was none.                                       *)
ViewInv ==
  \A i \in Items, u \in Users : "twice" \notin disturbed[i] =>
    /\ recent[<<u, i>>] <= 1
    /\ \A s \in Viewing(u, i) : recent[<<u, i>>] = 0
    /\ \A s, t \in Viewing(u, i) : s = t

(* All steps but a recount's only add to what is disturbed. *)
LEMMA DisturbedGrows ==
  ASSUME TypeOK, [Next]_vars, ~WriteRows, NEW i \in Items
  PROVE  disturbed[i] \subseteq disturbed'[i]
<1> USE TypeParts
<1>1. CASE UNCHANGED disturbed
  BY <1>1
<1>2. ASSUME NEW j, NEW k, Disturb(j, k)
      PROVE  disturbed[i] \subseteq disturbed'[i]
  BY <1>2 DEF Disturb, CountsOK
<1>3. CASE \E s \in Slots : Request(s)
  BY <1>1, <1>2, <1>3 DEF Request, GetDetail, ToggleLike, ForkItem, VerifyItem, TrackUsage
<1>4. CASE \E s \in Slots : SlotStep(s)
  BY <1>1, <1>4 DEF SlotStep, CountView, LogView, InsertLike, CountLike, RemoveLike, UncountLike,
       AnswerToggle, CountUse, LogUse, CopyResource, CommitFork, GrantBadge
<1>5. CASE \E s \in Slots : Fail(s) \/ MissView(s)
  BY <1>1, <1>2, <1>5 DEF Fail, MissView, CountsOK
<1>6. CASE CrashAPI
  BY <1>6 DEF CrashAPI
<1>7. CASE Recounting
  BY <1>1, <1>7 DEF Recounting, WorkerStep, RefreshFails, CrashWorker, EnqueueRefresh,
       HandleStatsRefresh, refreshSingleItem, ReadRows, FinishTask
<1>8. CASE \/ \E offer \in Offers : Publish(offer[1], offer[2], offer[3])
           \/ \E u \in Users, j \in Published : DeleteItem(u, j) \/ HourPasses(u, j)
           \/ \E r \in Resources : DeleteResource(r)
           \/ UNCHANGED vars
  BY <1>1, <1>8 DEF Publish, DeleteItem, HourPasses, DeleteResource, vars
<1> QED
  BY <1>3, <1>4, <1>5, <1>6, <1>7, <1>8 DEF Next, Recounting

LEMMA TwiceStays ==
  ASSUME TypeOK, [Next]_vars, NEW i \in Items, "twice" \in disturbed[i]
  PROVE  "twice" \in disturbed'[i]
<1>1. CASE WriteRows
  <2>1. Stages[worker.stage] # "twice"
    BY TypeParts DEF WorkerOK, AWorker, Stages
  <2> QED
    BY <1>1, <2>1, TypeParts DEF WriteRows, CountsOK
<1> QED
  BY <1>1, DisturbedGrows

(* Steps that neither begin nor log a view. *)
LEMMA FewerViewing ==
  ASSUME TypeOK, [Next]_vars, ~ \E s \in Slots, u \in Users, i \in Published : GetDetail(s, u, i)
  PROVE  \A u \in Users, i \in Items : Viewing(u, i)' \subseteq Viewing(u, i)
<1> USE TypeParts
<1> SUFFICES ASSUME NEW u \in Users, NEW i \in Items, NEW t \in Slots,
                    slot'[t].pc \in ViewPC, slot'[t].user = u, slot'[t].item = i
             PROVE  slot[t].pc \in ViewPC /\ slot[t].user = u /\ slot[t].item = i
  BY DEF Viewing
<1>1. CASE slot'[t] = slot[t]
  BY <1>1
<1>2. CASE \E s \in Slots : Request(s)
  <2>1. PICK s \in Slots, pc \in PC \ ViewPC, v \in Users, j \in Published, job \in Jobs \cup {None} :
          Begin(s, pc, v, j, job)
    BY <1>2 DEF Request, ToggleLike, ForkItem, VerifyItem, TrackUsage, FindItemIDByResourceID,
                Active, PC, ViewPC, TogglePC
  <2>2. slot' = [slot EXCEPT ![s] = [pc |-> pc, user |-> v, item |-> j, job |-> job]]
    BY <2>1 DEF Begin
  <2> QED
    BY <1>1, <2>2 DEF SlotsOK
<1>3. ASSUME NEW s \in Slots, Leave(s) \/ (\E pc \in PC \ ViewPC : Goto(s, pc))
                              \/ (At(s, "incrementView") /\ Goto(s, "logView"))
      PROVE  slot[t].pc \in ViewPC /\ slot[t].user = u /\ slot[t].item = i
  BY <1>1, <1>3 DEF Leave, Goto, At, IdleSlot, SlotsOK, ASlot, ViewPC
<1>4. CASE \E s \in Slots : SlotStep(s) \/ Fail(s) \/ MissView(s)
  <2>1. PICK s \in Slots : SlotStep(s) \/ Fail(s) \/ MissView(s)
    BY <1>4
  <2>2. Leave(s) \/ (\E pc \in PC \ ViewPC : Goto(s, pc)) \/ (At(s, "incrementView") /\ Goto(s, "logView"))
    BY <2>1 DEF SlotStep, Fail, MissView, CountView, LogView, InsertLike, CountLike, RemoveLike,
       UncountLike, AnswerToggle, CountUse, LogUse, CopyResource, CommitFork, GrantBadge,
       PC, ViewPC, TogglePC
  <2> QED
    BY <1>3, <2>2
<1>5. CASE CrashAPI
  BY <1>5 DEF CrashAPI, IdleSlot, ViewPC
<1>6. CASE UNCHANGED slot
  BY <1>1, <1>6
<1>7. CASE Recounting
  BY <1>6, <1>7, RecountFrame DEF requestVars
<1>8. CASE \/ \E offer \in Offers : Publish(offer[1], offer[2], offer[3])
           \/ \E v \in Users, j \in Published : DeleteItem(v, j) \/ HourPasses(v, j)
           \/ \E r \in Resources : DeleteResource(r)
           \/ UNCHANGED vars
  BY <1>6, <1>8 DEF Publish, DeleteItem, HourPasses, DeleteResource, requestVars, vars
<1> QED
  BY <1>2, <1>4, <1>5, <1>7, <1>8 DEF Next, Recounting

LEMMA ViewNext ==
  ASSUME TypeOK, ViewInv, [Next]_vars
  PROVE  ViewInv'
<1> USE TypeParts
<1> SUFFICES ASSUME NEW i \in Items, NEW u \in Users, "twice" \notin disturbed'[i]
             PROVE  /\ recent'[<<u, i>>] <= 1
                    /\ \A s \in Viewing(u, i)' : recent'[<<u, i>>] = 0
                    /\ \A s, t \in Viewing(u, i)' : s = t
  BY DEF ViewInv
<1> DEFINE p == <<u, i>>
<1>1. /\ recent[p] <= 1 /\ recent[p] \in Nat
      /\ \A s \in Viewing(u, i) : recent[p] = 0
      /\ \A s, t \in Viewing(u, i) : s = t
  BY TwiceStays DEF ViewInv, RestOK
<1>2. CASE Viewing(u, i)' \subseteq Viewing(u, i) /\ recent'[p] <= recent[p] /\ recent'[p] \in Nat
  BY <1>1, <1>2
<1>3. ASSUME NEW s \in Slots, NEW v \in Users, NEW j \in Published, GetDetail(s, v, j)
      PROVE  /\ recent'[p] <= 1
             /\ \A t \in Viewing(u, i)' : recent'[p] = 0
             /\ \A t, r \in Viewing(u, i)' : t = r
  <2>1. slot' = [slot EXCEPT ![s] = [pc |-> "incrementView", user |-> v, item |-> j, job |-> None]]
        /\ UNCHANGED recent
    BY <1>3 DEF GetDetail, Begin, tables, logs
  <2>2. CASE <<v, j>> = p
    <3>1. recent[p] = 0
      BY <1>1, <1>3, <2>2 DEF GetDetail, HasRecentView
    <3>2. ~Busy(ViewPC, u, i)
      BY <1>3, <2>2 DEF GetDetail, Disturb, CountsOK
    <3>3. Viewing(u, i) = {}
      BY <3>2 DEF Viewing, Busy
    <3>4. Viewing(u, i)' \subseteq {s}
      BY <2>1, <3>3 DEF Viewing, SlotsOK
    <3> QED
      BY <2>1, <3>1, <3>4
  <2>3. CASE <<v, j>> # p
    <3>1. Viewing(u, i)' \subseteq Viewing(u, i)
      BY <2>1, <2>3 DEF Viewing, SlotsOK
    <3> QED
      BY <1>1, <2>1, <3>1
  <2> QED
    BY <2>2, <2>3
<1>4. CASE ~ \E s \in Slots, v \in Users, j \in Published : GetDetail(s, v, j)
  <2>1. Viewing(u, i)' \subseteq Viewing(u, i)
    BY <1>4, FewerViewing
  <2>2. ASSUME NEW s \in Slots, LogView(s)
        PROVE  /\ recent'[p] <= 1
               /\ \A t \in Viewing(u, i)' : recent'[p] = 0
               /\ \A t, r \in Viewing(u, i)' : t = r
    <3>1. /\ recent' = [recent EXCEPT ![<<slot[s].user, slot[s].item>>] = @ + 1]
          /\ slot' = [slot EXCEPT ![s] = IdleSlot] /\ slot[s].pc = "logView"
      BY <2>2 DEF LogView, Leave, At
    <3>2. CASE <<slot[s].user, slot[s].item>> = p
      <4>1. s \in Viewing(u, i)
        BY <3>1, <3>2 DEF Viewing, ViewPC
      <4>2. s \notin Viewing(u, i)'
        BY <3>1 DEF Viewing, IdleSlot, SlotsOK, ViewPC
      <4>3. Viewing(u, i)' = {}
        BY <1>1, <2>1, <4>1, <4>2
      <4>4. recent[p] = 0 /\ p \in Users \X Items /\ recent \in [Users \X Items -> Nat]
        BY <1>1, <4>1 DEF RestOK
      <4>5. recent' = [recent EXCEPT ![p] = @ + 1]
        BY <3>1, <3>2
      <4>6. recent'[p] = 1
        <5> HIDE DEF p
        <5> QED
          BY <4>4, <4>5
      <4> QED
        BY <4>3, <4>6
    <3>3. CASE <<slot[s].user, slot[s].item>> # p
      BY <1>1, <2>1, <3>1, <3>3 DEF RestOK
    <3> QED
      BY <3>2, <3>3
  <2>3. CASE \E v \in Users, j \in Published : HourPasses(v, j)
    <3>1. recent'[p] <= recent[p] /\ recent'[p] \in Nat
      <4>1. PICK v \in Users, j \in Published : HourPasses(v, j)
        BY <2>3
      <4> DEFINE q == <<v, j>>
      <4>2. recent[q] > 0 /\ recent' = [recent EXCEPT ![q] = @ - 1]
        BY <4>1 DEF HourPasses
      <4>3. recent \in [Users \X Items -> Nat] /\ p \in Users \X Items
        BY DEF RestOK
      <4> HIDE DEF p, q
      <4> QED
        BY <4>2, <4>3
    <3> QED
      BY <1>2, <2>1, <3>1
  <2>4. CASE UNCHANGED recent
    BY <1>1, <1>2, <2>1, <2>4
  <2>5. CASE \E s \in Slots : SlotStep(s) /\ ~LogView(s)
    BY <2>4, <2>5 DEF SlotStep, CountView, InsertLike, CountLike, RemoveLike, UncountLike,
       AnswerToggle, CountUse, LogUse, CopyResource, CommitFork, GrantBadge, tables, logs
  <2>6. CASE CrashAPI \/ \E s \in Slots : Request(s) \/ Fail(s) \/ MissView(s)
    BY <2>4, <2>6, RequestFrame DEF CrashAPI, Fail, MissView, tables, logs
  <2>7. CASE Recounting
    BY <2>4, <2>7, RecountFrame DEF logs
  <2>8. CASE \/ \E offer \in Offers : Publish(offer[1], offer[2], offer[3])
             \/ \E v \in Users, j \in Published : DeleteItem(v, j)
             \/ \E r \in Resources : DeleteResource(r)
             \/ UNCHANGED vars
    BY <2>4, <2>8 DEF Publish, DeleteItem, DeleteResource, vars, tables, logs
  <2> QED
    BY <2>2, <2>3, <2>5, <2>6, <2>7, <2>8 DEF Next, Recounting
<1> QED
  BY <1>3, <1>4

(* Without views that overlap, no view counts twice in an hour. *)
THEOREM ViewsAreCountedOnce == Spec => []ViewsCountOnce
<1>1. Init => ViewInv
  BY DEF Init, ViewInv, Viewing, IdleSlot, ViewPC
<1>2. TypeOK /\ ViewInv => ViewsCountOnce
  <2> SUFFICES ASSUME TypeOK, ViewInv, NEW u \in Users, NEW i \in Published,
                      "twice" \notin disturbed[i]
               PROVE  ~(recent[<<u, i>>] > 1)
    BY DEF ViewsCountOnce
  <2>1. i \in Items
    BY TypeParts, PublishedItems
  <2>2. recent[<<u, i>>] <= 1 /\ recent[<<u, i>>] \in Nat
    BY <2>1, TypeParts DEF ViewInv, RestOK
  <2> QED
    BY <2>2
<1>3. TypeOK /\ ViewInv /\ [Next]_vars => ViewInv'
  BY ViewNext
<1> QED
  BY <1>1, <1>2, <1>3, TypeCorrect, PTL DEF Spec

-----------------------------------------------------------------------------
(* Toggles *)

TicketPC == TogglePC \cup {"answerLike", "answerUnlike"}

Ticket(s, liked, done) == [pair |-> <<slot[s].user, slot[s].item>>, liked |-> liked, done |-> done]

TicketOfPC(s) ==
  /\ slot[s].pc \notin TicketPC => ticketOf[s] = None
  /\ slot[s].pc = "insertLike" => ticketOf[s] = Ticket(s, TRUE, FALSE)
  /\ slot[s].pc = "deleteLike" => ticketOf[s] = Ticket(s, FALSE, FALSE)
  /\ slot[s].pc = "incrementLike" => ticketOf[s] = Ticket(s, TRUE, TRUE)
  /\ slot[s].pc = "decrementLike" => ticketOf[s] = Ticket(s, FALSE, TRUE)

LEMMA TicketAt ==
  ASSUME NEW s \in Slots
  PROVE  TicketOfPC(s)
<1> DEFINE liked == slot[s].pc \in {"insertLike", "incrementLike", "answerLike"}
           done == slot[s].pc \notin {"insertLike", "deleteLike"}
<1>1. ticketOf[s] = IF slot[s].pc \in TicketPC THEN Ticket(s, liked, done) ELSE None
  BY DEF ticketOf, Ticket, TicketPC
<1>2. liked \in BOOLEAN /\ done \in BOOLEAN
  OBVIOUS
<1>3. slot[s].pc \in TogglePC => slot[s].pc \in TicketPC
  BY DEF TicketPC
<1>4. slot[s].pc = "insertLike" => liked = TRUE /\ done = FALSE
  OBVIOUS
<1>5. slot[s].pc = "deleteLike" => liked = FALSE /\ done = FALSE
  OBVIOUS
<1>6. slot[s].pc = "incrementLike" => liked = TRUE /\ done = TRUE
  OBVIOUS
<1>7. slot[s].pc = "decrementLike" => liked = FALSE /\ done = TRUE
  OBVIOUS
<1> HIDE DEF liked, done
<1> QED
  BY <1>1, <1>3, <1>4, <1>5, <1>6, <1>7 DEF TogglePC, TicketOfPC

LEMMA TicketAtNext ==
  ASSUME NEW s \in Slots
  PROVE  TicketOfPC(s)'
<1>1. TicketOfPC(s)
  BY TicketAt
<1> QED
  BY <1>1, PTL

LEMMA TicketsShaped == ticketOf = [s \in Slots |-> ticketOf[s]]
BY DEF ticketOf

(* A request that is no toggle, or has ended, has no ticket. *)
LEMMA SameTickets ==
  ASSUME \A s \in Slots : \/ slot'[s] = slot[s]
                          \/ slot[s].pc \notin TicketPC /\ slot'[s].pc \notin TicketPC
  PROVE  UNCHANGED ticketOf
BY DEF ticketOf, TicketPC

LEMMA ToggleDecides ==
  ASSUME TypeOK, NEW s \in Slots, NEW u \in Users, NEW i \in Published, ToggleLike(s, u, i)
  PROVE  Board!Decide(s, <<u, i>>)
<1> USE TypeParts
<1> DEFINE pc == IF <<u, i>> \in likes THEN "deleteLike" ELSE "insertLike"
           q == [pc |-> pc, user |-> u, item |-> i, job |-> None]
           k == [pair |-> <<u, i>>, liked |-> <<u, i>> \notin likes, done |-> FALSE]
<1>1. slot[s].pc = "idle" /\ slot' = [slot EXCEPT ![s] = q] /\ UNCHANGED likes
  BY DEF ToggleLike, Begin, IsLiked, tables
<1>2. ticketOf[s] = None
  BY <1>1, TicketAt DEF TicketPC, TogglePC, TicketOfPC
<1>3. slot'[s] = q /\ \A t \in Slots : t # s => slot'[t] = slot[t]
  BY <1>1 DEF SlotsOK
<1>4. ticketOf'[s] = k
  <2>1. CASE <<u, i>> \in likes
    <3>1. k = [pair |-> <<u, i>>, liked |-> FALSE, done |-> FALSE]
      BY <2>1
    <3>2. slot'[s].pc = "deleteLike" /\ slot'[s].user = u /\ slot'[s].item = i
      BY <1>3, <2>1
    <3>3. ticketOf'[s] = [pair |-> <<u, i>>, liked |-> FALSE, done |-> FALSE]
      BY <3>2, TicketAtNext DEF Ticket, TicketOfPC
    <3> QED
      BY <3>1, <3>3
  <2>2. CASE <<u, i>> \notin likes
    <3>1. k = [pair |-> <<u, i>>, liked |-> TRUE, done |-> FALSE]
      BY <2>2
    <3>2. slot'[s].pc = "insertLike" /\ slot'[s].user = u /\ slot'[s].item = i
      BY <1>3, <2>2
    <3>3. ticketOf'[s] = [pair |-> <<u, i>>, liked |-> TRUE, done |-> FALSE]
      BY <3>2, TicketAtNext DEF Ticket, TicketOfPC
    <3> QED
      BY <3>1, <3>3
  <2> QED
    BY <2>1, <2>2
<1>5. \A t \in Slots : t # s => ticketOf'[t] = ticketOf[t]
  BY <1>3 DEF ticketOf
<1>6. ticketOf' = [t \in Slots |-> ticketOf'[t]]
  BY DEF ticketOf
<1>7. ticketOf' = [ticketOf EXCEPT ![s] = k]
  <2> HIDE DEF k
  <2> QED
    BY <1>4, <1>5, <1>6, TicketsShaped
<1> QED
  BY <1>1, <1>2, <1>7 DEF Board!Decide

LEMMA WriteApplies ==
  ASSUME TypeOK, NEW s \in Slots, InsertLike(s) \/ RemoveLike(s)
  PROVE  Board!Apply(s)
<1> USE TypeParts
<1> DEFINE p == <<slot[s].user, slot[s].item>>
<1>1. ASSUME NEW liked \in BOOLEAN, ticketOf[s] = [pair |-> p, liked |-> liked, done |-> FALSE],
             ticketOf'[s] = [pair |-> p, liked |-> liked, done |-> TRUE],
             likes' = IF liked THEN likes \cup {p} ELSE likes \ {p},
             \A t \in Slots : t # s => slot'[t] = slot[t],
             slot[s].pc # "idle"
      PROVE  Board!Apply(s)
  <2>1. slot[s].user \in Users /\ slot[s].item \in Items
    BY <1>1, ServedSlot
  <2>2. ticketOf[s] \in [pair : Users \X Items, liked : BOOLEAN, done : BOOLEAN]
    BY <1>1, <2>1
  <2>3. ticketOf[s] # None
    BY <2>2, NoTicketAssumption
  <2>4. \A t \in Slots : t # s => ticketOf'[t] = ticketOf[t]
    BY <1>1 DEF ticketOf
  <2>5. ticketOf' = [t \in Slots |-> ticketOf'[t]]
    BY DEF ticketOf
  <2>6. ticketOf' = [ticketOf EXCEPT ![s].done = TRUE]
    BY <1>1, <2>4, <2>5, TicketsShaped
  <2>7. /\ ~ticketOf[s].done
        /\ likes' = IF ticketOf[s].liked THEN likes \cup {ticketOf[s].pair}
                    ELSE likes \ {ticketOf[s].pair}
    BY <1>1
  <2> QED
    BY <2>3, <2>6, <2>7 DEF Board!Apply
<1>2. ASSUME NEW pc, slot' = [slot EXCEPT ![s].pc = pc]
      PROVE  /\ slot'[s].pc = pc /\ slot'[s].user = slot[s].user /\ slot'[s].item = slot[s].item
             /\ \A t \in Slots : t # s => slot'[t] = slot[t]
  BY <1>2 DEF SlotsOK, ASlot
<1>3. CASE InsertLike(s)
  <2>1. slot[s].pc = "insertLike" /\ slot' = [slot EXCEPT ![s].pc = "incrementLike"]
        /\ likes' = likes \cup {p}
    BY <1>3 DEF InsertLike, At, Goto, LikeCreated
  <2>2. ticketOf[s] = [pair |-> p, liked |-> TRUE, done |-> FALSE]
    BY <2>1, TicketAt DEF Ticket, TicketOfPC
  <2>3. slot'[s].pc = "incrementLike" /\ slot'[s].user = slot[s].user /\ slot'[s].item = slot[s].item
        /\ \A t \in Slots : t # s => slot'[t] = slot[t]
    BY <1>2, <2>1
  <2>4. ticketOf'[s] = [pair |-> p, liked |-> TRUE, done |-> TRUE]
    BY <2>3, TicketAtNext DEF Ticket, TicketOfPC
  <2> QED
    BY <1>1, <2>1, <2>2, <2>3, <2>4
<1>4. CASE RemoveLike(s)
  <2>1. slot[s].pc = "deleteLike" /\ slot' = [slot EXCEPT ![s].pc = "decrementLike"]
        /\ likes' = likes \ {p}
    BY <1>4 DEF RemoveLike, At, Goto, LikeDeleted
  <2>2. ticketOf[s] = [pair |-> p, liked |-> FALSE, done |-> FALSE]
    BY <2>1, TicketAt DEF Ticket, TicketOfPC
  <2>3. slot'[s].pc = "decrementLike" /\ slot'[s].user = slot[s].user /\ slot'[s].item = slot[s].item
        /\ \A t \in Slots : t # s => slot'[t] = slot[t]
    BY <1>2, <2>1
  <2>4. ticketOf'[s] = [pair |-> p, liked |-> FALSE, done |-> TRUE]
    BY <2>3, TicketAtNext DEF Ticket, TicketOfPC
  <2> QED
    BY <1>1, <2>1, <2>2, <2>3, <2>4
<1> QED
  BY <1>3, <1>4

LEMMA EndLeaves ==
  ASSUME TypeOK, UNCHANGED likes, NEW S \in SUBSET Slots,
         \A s \in Slots : slot'[s] = IF s \in S THEN IdleSlot ELSE slot[s]
  PROVE  Board!Leave(S)
<1>1. \A s \in Slots : ticketOf'[s] = IF s \in S THEN None ELSE ticketOf[s]
  BY DEF ticketOf, IdleSlot, TogglePC
<1>2. ticketOf' = [s \in Slots |-> ticketOf'[s]]
  BY DEF ticketOf
<1> QED
  BY <1>1, <1>2 DEF Board!Leave

LEMMA NextKeepsBoard ==
  ASSUME TypeOK, [Next]_vars
  PROVE  [Board!Next]_<<likes, ticketOf>>
<1> USE TypeParts
<1>1. ASSUME NEW s \in Slots, Leave(s), UNCHANGED likes
      PROVE  Board!Next
  <2>1. Board!Leave({s})
    BY <1>1, EndLeaves DEF Leave, SlotsOK
  <2> QED
    BY <2>1 DEF Board!Next
<1>2. ASSUME NEW s \in Slots, UNCHANGED likes, slot'[s].pc \in PC,
             slot[s].user = slot'[s].user, slot[s].item = slot'[s].item,
             \A t \in Slots : t # s => slot'[t] = slot[t],
             \/ slot[s].pc = "incrementLike" /\ slot'[s].pc = "answerLike"
             \/ slot[s].pc = "decrementLike" /\ slot'[s].pc = "answerUnlike"
      PROVE  UNCHANGED ticketOf
  BY <1>2 DEF ticketOf, TogglePC
<1>3. ASSUME NEW s \in Slots, Request(s)
      PROVE  [Board!Next]_<<likes, ticketOf>>
  <2>1. CASE \E u \in Users, i \in Published : ToggleLike(s, u, i)
    <3>1. PICK u \in Users, i \in Published : ToggleLike(s, u, i)
      BY <2>1
    <3>2. <<u, i>> \in Users \X Items
      BY PublishedItems
    <3>3. Board!Decide(s, <<u, i>>)
      BY <3>1, ToggleDecides
    <3> QED
      BY <3>2, <3>3 DEF Board!Next, Board!Pairs
  <2>2. CASE \E pc \in PC \ TicketPC, u \in Users, i \in Published, job \in Jobs \cup {None} :
               Begin(s, pc, u, i, job)
    <3>1. slot[s].pc \notin TicketPC /\ slot'[s].pc \notin TicketPC
          /\ \A t \in Slots : t # s => slot'[t] = slot[t]
      BY <2>2 DEF Begin, SlotsOK, TicketPC, TogglePC
    <3>2. UNCHANGED ticketOf
      BY <3>1, SameTickets
    <3> QED
      BY <1>3, <3>2, RequestFrame DEF tables
  <2> QED
    BY <1>3, <2>1, <2>2 DEF Request, GetDetail, ForkItem, VerifyItem, TrackUsage,
       FindItemIDByResourceID, Active, PC, ViewPC, TicketPC, TogglePC
<1>4. ASSUME NEW s \in Slots, SlotStep(s) \/ Fail(s) \/ MissView(s)
      PROVE  [Board!Next]_<<likes, ticketOf>>
  <2>1. CASE InsertLike(s) \/ RemoveLike(s)
    BY <2>1, WriteApplies DEF Board!Next
  <2>2. CASE CountLike(s) \/ UncountLike(s)
    <3>1. UNCHANGED likes
      BY <2>2 DEF CountLike, UncountLike
    <3>2. /\ slot'[s].pc \in PC
          /\ slot[s].user = slot'[s].user /\ slot[s].item = slot'[s].item
          /\ \A t \in Slots : t # s => slot'[t] = slot[t]
          /\ \/ slot[s].pc = "incrementLike" /\ slot'[s].pc = "answerLike"
             \/ slot[s].pc = "decrementLike" /\ slot'[s].pc = "answerUnlike"
      BY <2>2 DEF CountLike, UncountLike, At, Goto, SlotsOK, ASlot, PC
    <3>3. UNCHANGED ticketOf
      BY <1>2, <3>1, <3>2
    <3> QED
      BY <3>1, <3>3
  <2>3. CASE Leave(s) /\ UNCHANGED likes
    BY <1>1, <2>3
  <2>4. CASE \/ CountView(s) \/ MissView(s) \/ CountUse(s) \/ (CopyResource(s) /\ Goto(s, "commit"))
    <3>1. \E pc \in PC \ TicketPC : Goto(s, pc) /\ slot[s].pc \notin TicketPC /\ UNCHANGED likes
      BY <2>4 DEF CountView, MissView, CountUse, CopyResource, At, TicketPC, TogglePC, ViewPC, PC, tables
    <3>2. \A t \in Slots : \/ slot'[t] = slot[t]
                           \/ slot[t].pc \notin TicketPC /\ slot'[t].pc \notin TicketPC
      BY <3>1 DEF Goto, SlotsOK, ASlot
    <3> QED
      BY <3>1, <3>2, SameTickets
  <2>5. CASE \/ LogView(s) \/ AnswerToggle(s) \/ LogUse(s) \/ (CopyResource(s) /\ Leave(s))
             \/ CommitFork(s) \/ GrantBadge(s) \/ Fail(s)
    BY <2>3, <2>5 DEF LogView, AnswerToggle, LogUse, CopyResource, CommitFork, GrantBadge, Fail, tables
  <2> QED
    BY <1>4, <2>1, <2>2, <2>4, <2>5 DEF SlotStep, CopyResource
<1>5. CASE CrashAPI
  <2>1. Board!Leave(Slots)
    BY <1>5, EndLeaves DEF CrashAPI, tables
  <2> QED
    BY <2>1 DEF Board!Next
<1>6. CASE UNCHANGED <<slot, likes>>
  BY <1>6, SameTickets
<1>7. CASE Recounting
  BY <1>6, <1>7, RecountFrame DEF requestVars
<1>8. CASE \/ \E offer \in Offers : Publish(offer[1], offer[2], offer[3])
           \/ \E v \in Users, j \in Published : DeleteItem(v, j) \/ HourPasses(v, j)
           \/ \E r \in Resources : DeleteResource(r)
           \/ UNCHANGED vars
  BY <1>6, <1>8 DEF Publish, DeleteItem, HourPasses, DeleteResource, requestVars, vars, tables
<1> QED
  BY <1>3, <1>4, <1>5, <1>7, <1>8 DEF Next, Recounting

(* Toggles implement LikeBoard: each decides once, writes once what it      *)
(* decided, to its own pair, and answers only after that.                   *)
THEOREM TogglesImplementBoard == Spec => TogglesKeepBoard
<1>1. Init => Board!Init
  BY DEF Init, Board!Init, ticketOf, IdleSlot, TogglePC
<1>2. TypeOK /\ [Next]_vars => [Board!Next]_<<likes, ticketOf>>
  BY NextKeepsBoard
<1> QED
  BY <1>1, <1>2, TypeCorrect, PTL DEF Spec, TogglesKeepBoard, Board!Spec

-----------------------------------------------------------------------------
(* Counters of views, forks and runs: the rows, and the requests that have  *)
(* counted and not yet written their row.                                   *)

Plain == {"view", "fork", "use"}
WriteOf == [k \in Plain |-> IF k = "view" THEN "logView" ELSE IF k = "use" THEN "logUse" ELSE "none"]

(* Functions of the state, so that their values in the next state are those *)
(* of one function.                                                         *)
open == [i \in Items |-> [k \in Plain |-> {s \in Slots : slot[s].item = i /\ slot[s].pc = WriteOf[k]}]]
forks == [i \in Items |-> {j \in Published : items[j].from = i}]
rows == [i \in Items |-> [k \in Plain |->
          IF k = "view" THEN views[i] ELSE IF k = "use" THEN runs[i] ELSE Cardinality(forks[i])]]

PlainAt(i, k) == count[i][k] = rows[i][k] + Cardinality(open[i][k])

PlainInv == \A i \in Items, k \in Plain : k \notin disturbed[i] => PlainAt(i, k)

LEMMA Writes ==
  /\ \A k \in Plain : WriteOf[k] = "logView" <=> k = "view"
  /\ \A k \in Plain : WriteOf[k] = "logUse" <=> k = "use"
  /\ \A k \in Plain : WriteOf[k] \in {"logView", "logUse", "none"}
BY DEF Plain, WriteOf

LEMMA RowsOf ==
  ASSUME NEW i \in Items
  PROVE  /\ rows[i]["view"] = views[i] /\ rows[i]["use"] = runs[i]
         /\ rows[i]["fork"] = Cardinality(forks[i])
         /\ rows'[i]["view"] = views'[i] /\ rows'[i]["use"] = runs'[i]
         /\ rows'[i]["fork"] = Cardinality(forks'[i])
BY DEF rows, Plain

LEMMA RowsAsCounted ==
  ASSUME NEW i \in Items, NEW k \in Plain
  PROVE  Rows(i, k) = rows[i][k]
BY DEF Rows, rows, forks, Plain

LEMMA OpenFinite ==
  ASSUME NEW i \in Items, NEW k \in Plain
  PROVE  IsFiniteSet(open[i][k]) /\ Cardinality(open[i][k]) \in Nat
<1>1. open[i][k] \in SUBSET Slots
  BY DEF open
<1> QED
  BY <1>1, FS_Subset, FS_CardinalityType

(* A slot's step opens or closes only for its own item. *)
Opens(s, i, k) == slot[s].item = i /\ slot[s].pc = WriteOf[k]

LEMMA OpenMoves ==
  ASSUME NEW s \in Slots, NEW i \in Items, NEW k \in Plain,
         \A t \in Slots : t # s => slot'[t] = slot[t]
  PROVE  /\ Opens(s, i, k) <=> Opens(s, i, k)' => open'[i][k] = open[i][k]
         /\ ~Opens(s, i, k) /\ Opens(s, i, k)' =>
              Cardinality(open'[i][k]) = Cardinality(open[i][k]) + 1
         /\ Opens(s, i, k) /\ ~Opens(s, i, k)' =>
              Cardinality(open'[i][k]) = Cardinality(open[i][k]) - 1
<1> DEFINE A == {t \in Slots : slot[t].item = i /\ slot[t].pc = WriteOf[k]}
           B == {t \in Slots : slot'[t].item = i /\ slot'[t].pc = WriteOf[k]}
<1>1. open[i][k] = A /\ open'[i][k] = B
  BY DEF open
<1>2. IsFiniteSet(A)
  <2>1. A \in SUBSET Slots
    OBVIOUS
  <2> HIDE DEF A
  <2> QED
    BY <2>1, FS_Subset
<1>3. CASE Opens(s, i, k) <=> Opens(s, i, k)'
  <2> A = B
    BY <1>3 DEF Opens
  <2> QED
    BY <1>1, <1>3
<1>4. CASE ~Opens(s, i, k) /\ Opens(s, i, k)'
  <2>1. B = A \cup {s} /\ s \notin A
    BY <1>4 DEF Opens
  <2> HIDE DEF A, B
  <2>2. Cardinality(B) = Cardinality(A) + 1
    BY <1>2, <2>1, FS_AddElement
  <2> QED
    BY <1>1, <1>4, <2>2
<1>5. CASE Opens(s, i, k) /\ ~Opens(s, i, k)'
  <2>1. B = A \ {s} /\ s \in A
    BY <1>5 DEF Opens
  <2> HIDE DEF A, B
  <2>2. Cardinality(B) = Cardinality(A) - 1
    BY <1>2, <2>1, FS_RemoveElement
  <2> QED
    BY <1>1, <1>5, <2>2
<1> QED
  BY <1>3, <1>4, <1>5

LEMMA ForksSame ==
  ASSUME TypeOK, [Next]_vars, NEW i \in Items,
         ~ \E s \in Slots : CommitFork(s) /\ slot[s].item = i
  PROVE  forks'[i] = forks[i]
<1>1. \A j \in Published : j \in Published' /\ items'[j].from = items[j].from
  BY ItemsKept DEF SameItem
<1>2. \A j \in Published' \ Published : items'[j].from # i
  BY ItemsMove DEF ItemsStep, ForkedFrom, Items
<1> QED
  BY <1>1, <1>2 DEF forks

LEMMA Counted ==
  ASSUME TypeOK, NEW j \in Items, NEW c \in Counters, count' = Incremented(j, c)
  PROVE  \A i \in Items, k \in Counters :
           count'[i][k] = IF i = j /\ k = c THEN count[i][k] + 1 ELSE count[i][k]
<1>1. count \in [Items -> [Counters -> Nat]]
  BY TypeParts DEF CountsOK
<1>2. count' = [count EXCEPT ![j] = [count[j] EXCEPT ![c] = count[j][c] + 1]]
  BY DEF Incremented
<1> QED
  BY <1>1, <1>2

LEMMA PlainTypes ==
  ASSUME TypeOK, NEW i \in Items, NEW k \in Plain
  PROVE  /\ count[i][k] \in Nat /\ rows[i][k] \in Nat
         /\ views[i] \in Nat /\ runs[i] \in Nat
<1>1. k \in Counters
  BY DEF Plain, Counters
<1>2. rows[i][k] \in Nat
  BY <1>1, RowsAreNumbers, RowsAsCounted
<1> QED
  BY <1>1, <1>2, TypeParts DEF CountsOK, RestOK

LEMMA PlainSame ==
  ASSUME NEW i \in Items, NEW k \in Plain, PlainAt(i, k), count'[i][k] = count[i][k],
         rows'[i][k] = rows[i][k], open'[i][k] = open[i][k]
  PROVE  PlainAt(i, k)'
BY DEF PlainAt

LEMMA PlainSlotStep ==
  ASSUME TypeOK, [Next]_vars, NEW i \in Items, NEW k \in Plain, PlainAt(i, k),
         NEW s \in Slots, SlotStep(s)
  PROVE  PlainAt(i, k)'
<1> USE TypeParts, PlainTypes
<1> k \in Counters /\ {"view", "use", "like", "fork"} \subseteq Counters
  BY DEF Plain, Counters
<1>0. slot[s].pc # "idle"
  BY DEF SlotStep, CountView, LogView, InsertLike, CountLike, RemoveLike, UncountLike,
         AnswerToggle, CountUse, LogUse, CopyResource, CommitFork, GrantBadge, At
<1>1. slot[s].item \in Items /\ slot[s].user \in Users
  BY <1>0, ServedSlot
<1>2. ASSUME NEW pc, Goto(s, pc)
      PROVE  /\ slot'[s].pc = pc /\ slot'[s].item = slot[s].item
             /\ \A t \in Slots : t # s => slot'[t] = slot[t]
  BY <1>2 DEF Goto, SlotsOK, ASlot
<1>3. ASSUME Leave(s)
      PROVE  slot'[s].pc = "idle" /\ \A t \in Slots : t # s => slot'[t] = slot[t]
  BY <1>3 DEF Leave, IdleSlot, SlotsOK
<1>a. ASSUME NEW t \in Slots, CommitFork(t), t # s,
             \A r \in Slots : r # s => slot'[r] = slot[r]
      PROVE  FALSE
  BY <1>a DEF CommitFork, At, Leave, SlotsOK, IdleSlot
<1>4. CASE CountView(s) \/ CountUse(s)
  <2>1. PICK c \in {"view", "use"} :
          /\ count' = Incremented(slot[s].item, c)
          /\ c = "view" => slot[s].pc = "incrementView" /\ Goto(s, "logView")
          /\ c = "use" => slot[s].pc = "incrementUse" /\ Goto(s, "logUse")
          /\ UNCHANGED <<items, likes, logs>>
    BY <1>4 DEF CountView, CountUse, At
  <2>3. rows'[i][k] = rows[i][k]
    BY <2>1 DEF rows, forks, logs, Published
  <2>4. count'[i][k] = IF slot[s].item = i /\ k = c THEN count[i][k] + 1 ELSE count[i][k]
    BY <1>1, <2>1, Counted
  <2>5. CASE slot[s].item = i /\ k = c
    <3>1. ~Opens(s, i, k) /\ Opens(s, i, k)'
      BY <1>2, <2>1, <2>5, Writes DEF Opens
    <3>2. Cardinality(open'[i][k]) = Cardinality(open[i][k]) + 1
      BY <1>2, <2>1, <3>1, OpenMoves
    <3> QED
      BY <2>3, <2>4, <2>5, <3>2, OpenFinite DEF PlainAt
  <2>6. CASE ~(slot[s].item = i /\ k = c)
    <3>1. ~Opens(s, i, k) /\ ~Opens(s, i, k)'
      BY <1>2, <2>1, <2>6, Writes DEF Opens
    <3>2. open'[i][k] = open[i][k]
      BY <1>2, <2>1, <3>1, OpenMoves
    <3> QED
      BY <2>3, <2>4, <2>6, <3>2, PlainSame
  <2> QED
    BY <2>5, <2>6
<1>5. CASE LogView(s) \/ LogUse(s)
  <2>1. PICK c \in {"view", "use"} :
          /\ c = "view" => slot[s].pc = "logView" /\ views' = [views EXCEPT ![slot[s].item] = @ + 1]
                           /\ UNCHANGED runs
          /\ c = "use" => slot[s].pc = "logUse" /\ runs' = [runs EXCEPT ![slot[s].item] = @ + 1]
                          /\ UNCHANGED views
          /\ Leave(s)
          /\ UNCHANGED <<items, count, likes>>
    BY <1>5 DEF LogView, LogUse, At
  <2>3. rows'[i][k] = IF slot[s].item = i /\ k = c THEN rows[i][k] + 1 ELSE rows[i][k]
    <3>1. CASE k = "fork"
      <4>1. forks' = forks
        BY <2>1 DEF forks, Published
      <4> QED
        BY <3>1, <4>1, RowsOf
    <3>2. CASE k = "view"
      BY <1>1, <2>1, <3>2, RowsOf DEF RestOK
    <3>3. CASE k = "use"
      BY <1>1, <2>1, <3>3, RowsOf DEF RestOK
    <3> QED
      BY <3>1, <3>2, <3>3 DEF Plain
  <2>5. CASE slot[s].item = i /\ k = c
    <3>1. Opens(s, i, k) /\ ~Opens(s, i, k)'
      BY <1>3, <2>1, <2>5, Writes DEF Opens
    <3>2. Cardinality(open'[i][k]) = Cardinality(open[i][k]) - 1
      BY <1>3, <2>1, <3>1, OpenMoves
    <3> QED
      BY <2>1, <2>3, <2>5, <3>2, OpenFinite DEF PlainAt
  <2>6. CASE ~(slot[s].item = i /\ k = c)
    <3>1. ~Opens(s, i, k) /\ ~Opens(s, i, k)'
      BY <1>3, <2>1, <2>6, Writes DEF Opens
    <3>2. open'[i][k] = open[i][k]
      BY <1>3, <2>1, <3>1, OpenMoves
    <3> QED
      BY <2>1, <2>3, <2>6, <3>2, PlainSame
  <2> QED
    BY <2>5, <2>6
<1>6. CASE CommitFork(s) /\ items' # items
  <2>1. /\ slot[s].pc = "commit" /\ Leave(s) /\ UNCHANGED <<likes, logs>>
        /\ count' = Incremented(slot[s].item, "fork")
        /\ Len(items) < MaxItems
    BY <1>6 DEF CommitFork, At
  <2>2. open'[i][k] = open[i][k]
    <3>1. ~Opens(s, i, k) /\ ~Opens(s, i, k)'
      BY <1>3, <2>1, Writes DEF Opens
    <3> QED
      BY <1>3, <2>1, <3>1, OpenMoves
  <2>3. count'[i][k] = IF slot[s].item = i /\ k = "fork" THEN count[i][k] + 1 ELSE count[i][k]
    BY <1>1, <2>1, Counted
  <2>4. rows'[i][k] = IF slot[s].item = i /\ k = "fork" THEN rows[i][k] + 1 ELSE rows[i][k]
    <3>1. CASE k # "fork"
      BY <2>1, <3>1, RowsOf DEF Plain, logs
    <3>2. CASE k = "fork" /\ slot[s].item # i
      <4>1. ~ \E t \in Slots : CommitFork(t) /\ slot[t].item = i
        BY <1>a, <1>3, <2>1, <3>2
      <4> QED
        BY <3>2, <4>1, ForksSame, RowsOf
    <3>3. CASE k = "fork" /\ slot[s].item = i
      <4>1. PICK r \in FreshIds(Original(s).type) :
              items' = Append(items, NewItem(slot[s].user, Original(s).type, r, i))
        BY <1>6, <3>3 DEF CommitFork
      <4> DEFINE q == NewItem(slot[s].user, Original(s).type, r, i)
      <4>2. q \in Item /\ q.from = i
        BY <1>0, <1>1, <4>1, ServedSlot DEF NewItem, Item, Status, FreshIds, Original
      <4>3. items' = Append(items, q)
        BY <4>1
      <4> HIDE DEF q
      <4>4. /\ Len(items') = Len(items) + 1 /\ items'[Len(items) + 1] = q
            /\ \A j \in Published : items'[j] = items[j]
        BY <2>1, <4>2, <4>3, OneMoreItem
      <4>5. Len(items) \in Nat
        BY DEF ItemsOK
      <4>6. forks'[i] = forks[i] \cup {Len(items) + 1} /\ Len(items) + 1 \notin forks[i]
        BY <4>2, <4>4, <4>5 DEF forks, Published
      <4>7. IsFiniteSet(forks[i])
        <5>1. IsFiniteSet(1..Len(items)) /\ forks[i] \in SUBSET (1..Len(items))
          BY <4>5, FS_Interval DEF forks, Published
        <5> QED
          BY <5>1, FS_Subset
      <4>8. Cardinality(forks'[i]) = Cardinality(forks[i]) + 1
        BY <4>6, <4>7, FS_AddElement
      <4> QED
        BY <3>3, <4>8, RowsOf
    <3> QED
      BY <3>1, <3>2, <3>3
  <2>5. CASE slot[s].item = i /\ k = "fork"
    BY <2>2, <2>3, <2>4, <2>5, OpenFinite DEF PlainAt
  <2>6. CASE ~(slot[s].item = i /\ k = "fork")
    BY <2>2, <2>3, <2>4, <2>6, PlainSame
  <2> QED
    BY <2>5, <2>6
<1>7. CASE CommitFork(s) /\ items' = items
  <2>1. UNCHANGED <<count, likes, logs, items>> /\ slot[s].pc = "commit" /\ Leave(s)
    <3>1. CASE UNCHANGED <<resources, items, count>>
      BY <1>7, <3>1 DEF CommitFork, At
    <3>2. ASSUME NEW q, items' = Append(items, q)
          PROVE  FALSE
      BY <1>7, <3>2 DEF ItemsOK
    <3> QED
      BY <1>7, <3>1, <3>2 DEF CommitFork
  <2>2. open'[i][k] = open[i][k]
    <3>1. ~Opens(s, i, k) /\ ~Opens(s, i, k)'
      BY <1>3, <2>1, Writes DEF Opens
    <3> QED
      BY <1>3, <2>1, <3>1, OpenMoves
  <2> QED
    BY <2>1, <2>2, PlainSame DEF rows, forks, logs, Published
<1>8. CASE CountLike(s) \/ UncountLike(s)
  <2>1. /\ slot[s].pc \in {"incrementLike", "decrementLike"}
        /\ Goto(s, "answerLike") \/ Goto(s, "answerUnlike")
        /\ UNCHANGED <<items, likes, logs>>
        /\ count' = Incremented(slot[s].item, "like") \/ count' = LikeDecremented(slot[s].item)
    BY <1>8 DEF CountLike, UncountLike, At
  <2>2. open'[i][k] = open[i][k]
    <3>1. ~Opens(s, i, k) /\ ~Opens(s, i, k)'
      BY <1>2, <2>1, Writes DEF Opens
    <3> QED
      BY <1>2, <2>1, <3>1, OpenMoves
  <2>3. k # "like"
    BY DEF Plain
  <2>4. count'[i][k] = count[i][k]
    <3>1. CASE count' = Incremented(slot[s].item, "like")
      BY <1>1, <2>3, <3>1, Counted
    <3>2. CASE count' = LikeDecremented(slot[s].item)
      <4>1. count \in [Items -> [Counters -> Nat]]
        BY DEF CountsOK
      <4> QED
        BY <1>1, <2>3, <3>2, <4>1 DEF LikeDecremented
    <3> QED
      BY <2>1, <3>1, <3>2
  <2> QED
    BY <2>1, <2>2, <2>4, PlainSame DEF rows, forks, logs, Published
<1>9. CASE InsertLike(s) \/ RemoveLike(s) \/ AnswerToggle(s) \/ CopyResource(s) \/ GrantBadge(s)
  <2>1. /\ slot[s].pc \notin {"logView", "logUse", "none"}
        /\ Leave(s) \/ \E pc \in {"incrementLike", "decrementLike", "commit"} : Goto(s, pc)
        /\ UNCHANGED <<count, logs>>
    BY <1>9 DEF InsertLike, RemoveLike, AnswerToggle, CopyResource, GrantBadge, At, tables
  <2>a. slot'[s].pc \in {"idle", "incrementLike", "decrementLike", "commit"}
        /\ \A t \in Slots : t # s => slot'[t] = slot[t]
    <3>1. CASE Leave(s)
      BY <1>3, <3>1
    <3>2. CASE \E pc \in {"incrementLike", "decrementLike", "commit"} : Goto(s, pc)
      BY <1>2, <3>2
    <3> QED
      BY <2>1, <3>1, <3>2
  <2>2. open'[i][k] = open[i][k]
    <3>1. ~Opens(s, i, k) /\ ~Opens(s, i, k)'
      BY <2>1, <2>a, Writes DEF Opens
    <3> QED
      BY <2>a, <3>1, OpenMoves
  <2>3. ~ \E t \in Slots : CommitFork(t) /\ slot[t].item = i
    <3>1. slot[s].pc # "commit"
      BY <1>9 DEF InsertLike, RemoveLike, AnswerToggle, CopyResource, GrantBadge, At
    <3> QED
      BY <1>a, <2>a, <3>1 DEF CommitFork, At
  <2>4. rows'[i][k] = rows[i][k]
    BY <2>1, <2>3, ForksSame, RowsOf DEF Plain, logs
  <2> QED
    BY <2>1, <2>2, <2>4, PlainSame
<1> QED
  BY <1>4, <1>5, <1>6, <1>7, <1>8, <1>9 DEF SlotStep

HalfOfPC(s) ==
  /\ "view" \in Half(s) <=> slot[s].pc = "logView"
  /\ "use" \in Half(s) <=> slot[s].pc = "logUse"
  /\ "like" \in Half(s) <=> slot[s].pc \in {"incrementLike", "decrementLike"}
  /\ "fork" \notin Half(s)

LEMMA HalfAt ==
  ASSUME NEW s
  PROVE  HalfOfPC(s)
BY DEF HalfOfPC, Half

LEMMA SettledClosed ==
  ASSUME TypeOK, NEW i \in Items, NEW k \in Plain, Settled(i, k)
  PROVE  open[i][k] = {} /\ Cardinality(open[i][k]) = 0
<1>1. \A s \in Slots : slot[s].item = i => slot[s].pc # WriteOf[k]
  <2> SUFFICES ASSUME NEW s \in Slots, slot[s].item = i
               PROVE  slot[s].pc # WriteOf[k]
    OBVIOUS
  <2>1. k \notin Half(s)
    BY DEF Settled
  <2>2. slot[s].pc # "none"
    BY TypeParts DEF SlotsOK, ASlot, PC, ViewPC, TogglePC
  <2> QED
    BY <2>1, <2>2, HalfAt DEF HalfOfPC, Plain, WriteOf
<1>2. open[i][k] = {}
  BY <1>1 DEF open
<1> QED
  BY <1>2, FS_EmptySet

(* What a recount leaves undisturbed it has set to the rows, with no        *)
(* request about.                                                           *)
LEMMA RecountSets ==
  ASSUME TypeOK, WriteRows, NEW i \in Items, NEW k \in Counters, k \notin disturbed'[i]
  PROVE  \/ k \notin disturbed[i] /\ count'[i][k] = count[i][k]
         \/ count'[i][k] = Rows(i, k) /\ Settled(i, k) /\ (k = "like" => Untoggled(i))
<1> USE TypeParts
<1> DEFINE j == worker.item
           c == Stages[worker.stage]
<1>1. j \in Items /\ c \in Counters
  BY PublishedItems DEF WriteRows, WorkerOK, AWorker, Stages, Counters
<1>2. count' = [count EXCEPT ![j] = [count[j] EXCEPT ![c] = worker.seen]]
  BY DEF WriteRows, Refreshed
<1>3. disturbed' = [disturbed EXCEPT ![j] =
        IF worker.seen = Rows(j, c) /\ Settled(j, c) /\ (c = "like" => Untoggled(j))
        THEN disturbed[j] \ {c} ELSE disturbed[j] \cup {c}]
  BY DEF WriteRows
<1>4. /\ count \in [Items -> [Counters -> Nat]]
      /\ disturbed \in [Items -> SUBSET (Counters \cup {"twice"})]
  BY DEF CountsOK
<1> HIDE DEF j, c
<1>5. CASE i = j /\ k = c
  <2>1. worker.seen = Rows(j, c) /\ Settled(j, c) /\ (c = "like" => Untoggled(j))
    BY <1>1, <1>3, <1>4, <1>5
  <2>2. count'[j][c] = worker.seen
    BY <1>1, <1>2, <1>4
  <2> QED
    BY <1>5, <2>1, <2>2
<1>6. CASE i # j
  BY <1>1, <1>2, <1>3, <1>4, <1>6
<1>7. CASE i = j /\ k # c
  <2>1. count'[i][k] = count[i][k]
    BY <1>1, <1>2, <1>4, <1>7
  <2>2. k \notin disturbed[i]
    BY <1>1, <1>3, <1>4, <1>7
  <2> QED
    BY <2>1, <2>2
<1> QED
  BY <1>5, <1>6, <1>7

LEMMA OpenUnchanged ==
  ASSUME UNCHANGED slot
  PROVE  open' = open
BY DEF open

LEMMA RowsUnchanged ==
  ASSUME TypeOK, [Next]_vars, UNCHANGED <<views, runs>>, NEW i \in Items, NEW k \in Plain,
         \A s \in Slots : ~CommitFork(s)
  PROVE  rows'[i][k] = rows[i][k]
<1>1. forks'[i] = forks[i]
  BY ForksSame
<1> QED
  BY <1>1, RowsOf DEF Plain

LEMMA PlainNext ==
  ASSUME TypeOK, PlainInv, [Next]_vars
  PROVE  PlainInv'
<1> USE TypeParts
<1> SUFFICES ASSUME NEW i \in Items, NEW k \in Plain, k \notin disturbed'[i]
             PROVE  PlainAt(i, k)'
  BY DEF PlainInv, PlainAt
<1>0. k \in Counters
  BY DEF Plain, Counters
<1>1. CASE WriteRows
  <2>1. UNCHANGED <<items, views, runs, slot>>
    BY <1>1 DEF WriteRows, logs, requestVars
  <2>2. rows' = rows /\ open' = open
    BY <2>1, OpenUnchanged DEF rows, forks, Published
  <2>3. CASE k \notin disturbed[i] /\ count'[i][k] = count[i][k]
    BY <2>2, <2>3 DEF PlainInv, PlainAt
  <2>4. CASE count'[i][k] = Rows(i, k) /\ Settled(i, k)
    <3>1. Cardinality(open[i][k]) = 0
      BY <2>4, SettledClosed
    <3>2. Rows(i, k) = rows[i][k] /\ rows[i][k] \in Nat
      BY RowsAsCounted, PlainTypes
    <3> QED
      BY <2>2, <2>4, <3>1, <3>2 DEF PlainAt
  <2> QED
    BY <1>0, <1>1, <2>3, <2>4, RecountSets
<1>2. CASE ~WriteRows
  <2>1. PlainAt(i, k)
    BY <1>2, DisturbedGrows DEF PlainInv
  <2>2. CASE \E s \in Slots : SlotStep(s)
    BY <2>1, <2>2, PlainSlotStep
  <2>3. ASSUME UNCHANGED <<count, views, runs>>, \A s \in Slots : ~CommitFork(s),
               open'[i][k] = open[i][k]
        PROVE  PlainAt(i, k)'
    BY <2>1, <2>3, RowsUnchanged, PlainSame
  <2>4. CASE \E s \in Slots : Request(s)
    <3>1. PICK s \in Slots, pc \in PC, u \in Users, j \in Published, job \in Jobs \cup {None} :
            /\ Request(s) /\ Begin(s, pc, u, j, job)
            /\ pc \notin {"logView", "logUse"}
      BY <2>4, RequestMoves
    <3>2. /\ slot[s].pc = "idle" /\ slot'[s].pc = pc
          /\ \A t \in Slots : t # s => slot'[t] = slot[t]
      BY <3>1 DEF Begin, SlotsOK
    <3>3. ~Opens(s, i, k) /\ ~Opens(s, i, k)'
      BY <3>1, <3>2, Writes DEF Opens, PC, ViewPC, TogglePC
    <3>4. open'[i][k] = open[i][k]
      BY <3>2, <3>3, OpenMoves
    <3>5. \A t \in Slots : ~CommitFork(t)
      BY <3>1, <3>2 DEF CommitFork, At, Leave, SlotsOK, IdleSlot, PC, Begin
    <3> QED
      BY <2>3, <3>1, <3>4, <3>5, RequestFrame DEF tables, logs
  <2>5. CASE \E s \in Slots : Fail(s) \/ MissView(s)
    <3>1. PICK s \in Slots : Fail(s) \/ MissView(s)
      BY <2>5
    <3>2. slot[s].pc # "idle" /\ slot[s].item \in Items
      BY <3>1, ServedSlot DEF Fail, MissView, At
    <3>3. UNCHANGED <<count, views, runs, items>>
      BY <3>1 DEF Fail, MissView, tables, logs
    <3>4. rows' = rows
      BY <3>3 DEF rows, forks, Published
    <3>5. /\ slot'[s].pc \in {"idle", "logView"} /\ \A t \in Slots : t # s => slot'[t] = slot[t]
          /\ slot'[s].pc = "logView" => MissView(s) /\ slot'[s].item = slot[s].item
      BY <3>1 DEF Fail, MissView, Leave, Goto, At, SlotsOK, ASlot, IdleSlot
    <3>6. ~Opens(s, i, k)'
      <4>1. CASE MissView(s)
        <5>1. slot[s].item = i => k # "view"
          BY <3>2, <4>1 DEF MissView, Disturb, CountsOK
        <5> QED
          BY <3>5, <5>1, Writes DEF Opens
      <4>2. CASE Fail(s) /\ slot'[s].pc = "idle"
        BY <4>2, Writes DEF Opens
      <4> QED
        BY <3>1, <3>5, <4>1, <4>2
    <3>7. ~Opens(s, i, k)
      <4>1. CASE MissView(s)
        BY <4>1, Writes DEF Opens, MissView, At
      <4>2. CASE Fail(s)
        <5>1. slot[s].item = i => k \notin Half(s)
          BY <3>2, <4>2 DEF Fail, CountsOK
        <5>2. slot[s].pc # "none"
          BY DEF SlotsOK, ASlot, PC, ViewPC, TogglePC
        <5> QED
          BY <5>1, <5>2, HalfAt DEF Opens, HalfOfPC, Plain, WriteOf
      <4> QED
        BY <3>1, <4>1, <4>2
    <3>8. open'[i][k] = open[i][k]
      BY <3>5, <3>6, <3>7, OpenMoves
    <3> QED
      BY <2>1, <3>3, <3>4, <3>8, PlainSame
  <2>6. CASE CrashAPI
    <3>1. Settled(i, k)
      BY <1>0, <2>6 DEF CrashAPI
    <3>2. open[i][k] = {}
      BY <3>1, SettledClosed
    <3>3. open'[i][k] = {}
      BY <2>6, Writes DEF CrashAPI, open, IdleSlot
    <3>4. UNCHANGED <<count, views, runs, items>>
      BY <2>6 DEF CrashAPI, tables, logs
    <3>5. rows' = rows
      BY <3>4 DEF rows, forks, Published
    <3> QED
      BY <2>1, <3>2, <3>3, <3>4, <3>5, PlainSame
  <2>7. CASE UNCHANGED <<slot, count, views, runs>>
    <3>1. \A s \in Slots : ~CommitFork(s)
      BY <2>7 DEF CommitFork, At, Leave, SlotsOK, IdleSlot
    <3> QED
      BY <2>3, <2>7, <3>1, OpenUnchanged
  <2>8. CASE Recounting
    <3>1. UNCHANGED count
      BY <1>2, <2>8 DEF Recounting, WorkerStep, RefreshFails, CrashWorker, EnqueueRefresh,
         HandleStatsRefresh, refreshSingleItem, ReadRows, FinishTask, tables
    <3> QED
      BY <2>7, <2>8, <3>1, RecountFrame DEF requestVars, logs
  <2>9. CASE \/ \E offer \in Offers : Publish(offer[1], offer[2], offer[3])
             \/ \E u \in Users, j \in Published : DeleteItem(u, j) \/ HourPasses(u, j)
             \/ \E r \in Resources : DeleteResource(r)
             \/ UNCHANGED vars
    BY <2>7, <2>9 DEF Publish, DeleteItem, HourPasses, DeleteResource, vars, requestVars, tables, logs
  <2> QED
    BY <2>2, <2>4, <2>5, <2>6, <2>8, <2>9 DEF Next, Recounting
<1> QED
  BY <1>1, <1>2

-----------------------------------------------------------------------------
(* The counter of likes: while no two toggles of one user overlap, it       *)
(* counts the users whose last write of the counter was an increment.       *)

Toggling(u, i) == {s \in Slots : slot[s].pc \in TogglePC /\ slot[s].user = u /\ slot[s].item = i}

Credit(u, i) ==
  /\ \A s \in Toggling(u, i) : slot[s].pc # "incrementLike"
  /\ <<u, i>> \in likes \/ \E s \in Toggling(u, i) : slot[s].pc = "decrementLike"

credited == [i \in Items |-> {u \in Users : Credit(u, i)}]

Alone(u, i) ==
  /\ \A s, t \in Toggling(u, i) : s = t
  /\ \A s \in Toggling(u, i) :
       slot[s].pc \in {"insertLike", "decrementLike"} <=> <<u, i>> \notin likes

LikeInv ==
  \A i \in Items : "like" \notin disturbed[i] =>
    /\ count[i]["like"] = Cardinality(credited[i])
    /\ \A u \in Users : Alone(u, i)

LEMMA CreditedFinite ==
  ASSUME NEW i \in Items
  PROVE  IsFiniteSet(credited[i]) /\ Cardinality(credited[i]) \in Nat
<1>1. credited[i] \in SUBSET Users
  BY DEF credited
<1> QED
  BY <1>1, FS_Subset, FS_CardinalityType

LEMMA CreditedAt ==
  ASSUME NEW i \in Items, NEW u \in Users
  PROVE  /\ u \in credited[i] <=> Credit(u, i)
         /\ u \in credited'[i] <=> Credit(u, i)'
BY DEF credited, Credit, Toggling

(* A step of slot s concerns the pair it serves, no other. *)
LEMMA OtherPairs ==
  ASSUME NEW s \in Slots, NEW i \in Items, NEW u \in Users,
         \A t \in Slots : t # s => slot'[t] = slot[t],
         s \notin Toggling(u, i), s \notin Toggling(u, i)',
         <<u, i>> \in likes' <=> <<u, i>> \in likes
  PROVE  /\ Credit(u, i)' <=> Credit(u, i)
         /\ Alone(u, i) => Alone(u, i)'
<1>1. Toggling(u, i)' = Toggling(u, i)
  BY DEF Toggling
<1>2. \A t \in Toggling(u, i) : slot'[t] = slot[t]
  BY DEF Toggling
<1> QED
  BY <1>1, <1>2 DEF Credit, Alone

LEMMA NoPairs ==
  ASSUME UNCHANGED <<slot, likes>>, NEW i \in Items, NEW u \in Users
  PROVE  (Credit(u, i)' <=> Credit(u, i)) /\ (Alone(u, i) => Alone(u, i)')
BY DEF Credit, Alone, Toggling

LikeAt(i) == count[i]["like"] = Cardinality(credited[i]) /\ \A u \in Users : Alone(u, i)

LEMMA LikeSame ==
  ASSUME NEW i \in Items, LikeAt(i), count'[i]["like"] = count[i]["like"],
         \A u \in Users : (Credit(u, i)' <=> Credit(u, i)) /\ Alone(u, i)'
  PROVE  LikeAt(i)'
<1>1. credited'[i] = credited[i]
  BY CreditedAt DEF credited
<1> QED
  BY <1>1 DEF LikeAt

(* The pair of a slot that is alone, before and after its step. *)
LEMMA AlonePair ==
  ASSUME NEW s \in Slots, NEW i \in Items, NEW u \in Users, Alone(u, i), s \in Toggling(u, i)
  PROVE  /\ Toggling(u, i) = {s}
         /\ Credit(u, i) <=> slot[s].pc \in {"deleteLike", "decrementLike"}
         /\ slot[s].pc \in {"insertLike", "decrementLike"} <=> <<u, i>> \notin likes
<1>1. Toggling(u, i) = {s}
  BY DEF Alone
<1>2. slot[s].pc \in TogglePC
  BY DEF Toggling
<1>3. slot[s].pc \in {"insertLike", "decrementLike"} <=> <<u, i>> \notin likes
  BY DEF Alone
<1> QED
  BY <1>1, <1>2, <1>3 DEF Credit, TogglePC

LEMMA LikeSlotStep ==
  ASSUME TypeOK, NEW i \in Items, LikeAt(i), NEW s \in Slots,
         InsertLike(s) \/ CountLike(s) \/ RemoveLike(s) \/ UncountLike(s)
  PROVE  LikeAt(i)'
<1> USE TypeParts
<1>a. slot[s].pc \in TogglePC /\ slot[s].user \in Users /\ slot[s].item \in Items
  BY ServedSlot DEF InsertLike, CountLike, RemoveLike, UncountLike, At, TogglePC
<1>b. PICK u \in Users, j \in Items : u = slot[s].user /\ j = slot[s].item
  BY <1>a
<1>1. slot[s].pc \in TogglePC /\ u \in Users /\ j \in Items /\ u = slot[s].user /\ j = slot[s].item
  BY <1>a, <1>b
<1>2. /\ slot'[s].user = u /\ slot'[s].item = j
      /\ \A t \in Slots : t # s => slot'[t] = slot[t]
      /\ slot[s].pc = "insertLike" => slot'[s].pc = "incrementLike" /\ likes' = likes \cup {<<u, j>>}
                                      /\ UNCHANGED count
      /\ slot[s].pc = "deleteLike" => slot'[s].pc = "decrementLike" /\ likes' = likes \ {<<u, j>>}
                                      /\ UNCHANGED count
      /\ slot[s].pc = "incrementLike" => slot'[s].pc = "answerLike" /\ UNCHANGED likes
                                         /\ count' = Incremented(j, "like")
      /\ slot[s].pc = "decrementLike" => slot'[s].pc = "answerUnlike" /\ UNCHANGED likes
                                         /\ count' = LikeDecremented(j)
  BY <1>1 DEF InsertLike, CountLike, RemoveLike, UncountLike, At, Goto, LikeCreated, LikeDeleted,
              SlotsOK, ASlot
<1>3. \A v \in Users : <<v, i>> # <<u, j>> => (Credit(v, i)' <=> Credit(v, i)) /\ Alone(v, i)'
  <2> SUFFICES ASSUME NEW v \in Users, <<v, i>> # <<u, j>>
               PROVE  (Credit(v, i)' <=> Credit(v, i)) /\ Alone(v, i)'
    OBVIOUS
  <2>1. s \notin Toggling(v, i) /\ s \notin Toggling(v, i)'
    BY <1>1, <1>2 DEF Toggling
  <2>2. <<v, i>> \in likes' <=> <<v, i>> \in likes
    BY <1>1, <1>2 DEF TogglePC
  <2>3. Alone(v, i)
    BY DEF LikeAt
  <2> QED
    BY <1>2, <2>1, <2>2, <2>3, OtherPairs
<1>4. CASE i # j
  <2>1. count'[i]["like"] = count[i]["like"]
    <3>1. count \in [Items -> [Counters -> Nat]]
      BY DEF CountsOK
    <3> QED
      BY <1>1, <1>2, <1>4, <3>1 DEF TogglePC, Incremented, LikeDecremented
  <2> QED
    BY <1>3, <1>4, <2>1, LikeSame
<1>5. CASE i = j
  <2>1. s \in Toggling(u, i) /\ Alone(u, i)
    BY <1>1, <1>5 DEF Toggling, LikeAt
  <2>2. /\ Toggling(u, i) = {s}
        /\ Credit(u, i) <=> slot[s].pc \in {"deleteLike", "decrementLike"}
        /\ slot[s].pc \in {"insertLike", "decrementLike"} <=> <<u, i>> \notin likes
    BY <1>1, <2>1, AlonePair
  <2>3. Toggling(u, i)' = IF slot'[s].pc \in TogglePC THEN {s} ELSE {}
    BY <1>2, <1>5, <2>2 DEF Toggling
  <2>4. /\ Alone(u, i)'
        /\ Credit(u, i)' <=> slot[s].pc \in {"deleteLike", "incrementLike"}
    <3>1. CASE slot[s].pc \in {"insertLike", "deleteLike"}
      <4>1. Toggling(u, i)' = {s}
        BY <1>2, <2>3, <3>1 DEF TogglePC
      <4>2. slot[s].pc = "insertLike" => slot'[s].pc = "incrementLike" /\ <<u, i>> \in likes'
        BY <1>2, <1>5
      <4>3. slot[s].pc = "deleteLike" => slot'[s].pc = "decrementLike" /\ <<u, i>> \notin likes'
        BY <1>2, <1>5
      <4> QED
        BY <3>1, <4>1, <4>2, <4>3 DEF Alone, Credit
    <3>2. CASE slot[s].pc \in {"incrementLike", "decrementLike"}
      <4>1. Toggling(u, i)' = {} /\ UNCHANGED likes
        BY <1>2, <2>3, <3>2 DEF TogglePC
      <4> QED
        BY <2>2, <3>2, <4>1 DEF Alone, Credit
    <3> QED
      BY <1>1, <3>1, <3>2 DEF TogglePC
  <2>5. \A v \in Users : Alone(v, i)' /\ (v # u => (Credit(v, i)' <=> Credit(v, i)))
    BY <1>3, <2>4
  <2>6. CASE slot[s].pc \in {"insertLike", "deleteLike"}
    <3>1. Credit(u, i)' <=> Credit(u, i)
      BY <2>2, <2>4, <2>6
    <3> QED
      BY <1>2, <2>5, <2>6, <3>1, LikeSame
  <2>7. count[i]["like"] = Cardinality(credited[i]) /\ count[i] \in [Counters -> Nat]
        /\ count \in [Items -> [Counters -> Nat]] /\ "like" \in Counters
    BY DEF LikeAt, CountsOK, Counters
  <2>8. CASE slot[s].pc = "incrementLike"
    <3>1. ~Credit(u, i) /\ Credit(u, i)'
      BY <2>2, <2>4, <2>8
    <3>2. credited'[i] = credited[i] \cup {u} /\ u \notin credited[i]
      BY <1>1, <2>5, <3>1, CreditedAt DEF credited
    <3>3. Cardinality(credited'[i]) = Cardinality(credited[i]) + 1
      BY <3>2, CreditedFinite, FS_AddElement
    <3>4. count'[i]["like"] = count[i]["like"] + 1
      BY <1>1, <1>2, <1>5, <2>7, <2>8, Counted
    <3> QED
      BY <2>5, <2>7, <3>3, <3>4 DEF LikeAt
  <2>9. CASE slot[s].pc = "decrementLike"
    <3>1. Credit(u, i) /\ ~Credit(u, i)'
      BY <2>2, <2>4, <2>9
    <3>2. credited'[i] = credited[i] \ {u} /\ u \in credited[i]
      BY <1>1, <2>5, <3>1, CreditedAt DEF credited
    <3>3. Cardinality(credited'[i]) = Cardinality(credited[i]) - 1
      <4> DEFINE A == credited[i]
      <4>1. IsFiniteSet(A) /\ u \in A
        BY <3>2, CreditedFinite
      <4> HIDE DEF A
      <4>2. Cardinality(A \ {u}) = Cardinality(A) - 1
        BY <4>1, FS_RemoveElement
      <4> QED
        BY <3>2, <4>2 DEF A
    <3>4. Cardinality(credited[i]) # 0
      BY <3>2, CreditedFinite, FS_EmptySet
    <3>5. count'[i]["like"] = count[i]["like"] - 1
      BY <1>2, <1>5, <2>7, <2>9, <3>4 DEF LikeDecremented
    <3> QED
      BY <2>5, <2>7, <3>3, <3>5 DEF LikeAt
  <2> QED
    BY <1>1, <2>6, <2>8, <2>9 DEF TogglePC
<1> QED
  BY <1>4, <1>5

(* A toggle that fails between two writes disturbs, any other leaves all    *)
(* as if it had not been.                                                   *)
LEMMA LikeGone ==
  ASSUME TypeOK, NEW i \in Items, LikeAt(i), UNCHANGED <<likes, count>>,
         NEW S \in SUBSET Slots,
         \A s \in Slots : slot'[s] = IF s \in S THEN IdleSlot ELSE slot[s],
         \A s \in S : slot[s].item = i => slot[s].pc \notin {"incrementLike", "decrementLike"}
  PROVE  LikeAt(i)'
<1> SUFFICES ASSUME NEW u \in Users
             PROVE  (Credit(u, i)' <=> Credit(u, i)) /\ Alone(u, i)'
  BY LikeSame DEF LikeAt
<1>1. Alone(u, i)
  BY DEF LikeAt
<1>2. Toggling(u, i)' = Toggling(u, i) \ S
  BY DEF Toggling, IdleSlot, TogglePC
<1>3. \A s \in Toggling(u, i)' : slot'[s] = slot[s]
  BY <1>2 DEF Toggling
<1>4. \A s \in Toggling(u, i) \cap S : slot[s].pc \notin {"incrementLike", "decrementLike"}
  BY DEF Toggling
<1> QED
  BY <1>1, <1>2, <1>3, <1>4 DEF Credit, Alone

LEMMA LikeNext ==
  ASSUME TypeOK, LikeInv, [Next]_vars
  PROVE  LikeInv'
<1> USE TypeParts
<1> SUFFICES ASSUME NEW i \in Items, "like" \notin disturbed'[i]
             PROVE  LikeAt(i)'
  BY DEF LikeInv, LikeAt
<1>0. "like" \in Counters
  BY DEF Counters
<1>1. CASE WriteRows
  <2>1. UNCHANGED <<likes, slot>>
    BY <1>1 DEF WriteRows, requestVars
  <2>2. CASE "like" \notin disturbed[i] /\ count'[i]["like"] = count[i]["like"]
    BY <2>1, <2>2, NoPairs, LikeSame DEF LikeInv, LikeAt
  <2>3. CASE count'[i]["like"] = Rows(i, "like") /\ Untoggled(i)
    <3>1. \A u \in Users : Toggling(u, i) = {} /\ Toggling(u, i)' = {}
      BY <2>1, <2>3 DEF Untoggled, Toggling
    <3>2. credited'[i] = {u \in Users : <<u, i>> \in likes}
      BY <2>1, <3>1 DEF credited, Credit
    <3>3. \A u \in Users : Alone(u, i)'
      BY <3>1 DEF Alone
    <3>4. Rows(i, "like") = Cardinality({u \in Users : <<u, i>> \in likes})
      BY DEF Rows
    <3> QED
      BY <2>3, <3>2, <3>3, <3>4 DEF LikeAt
  <2> QED
    BY <1>0, <1>1, <2>2, <2>3, RecountSets
<1>2. CASE ~WriteRows
  <2>1. LikeAt(i)
    BY <1>2, DisturbedGrows DEF LikeInv, LikeAt
  <2>2. CASE \E s \in Slots : InsertLike(s) \/ CountLike(s) \/ RemoveLike(s) \/ UncountLike(s)
    BY <2>1, <2>2, LikeSlotStep
  <2>3. ASSUME NEW s \in Slots, UNCHANGED likes, count'[i]["like"] = count[i]["like"],
               \A t \in Slots : t # s => slot'[t] = slot[t],
               slot[s].pc \notin TogglePC, slot'[s].pc \notin TogglePC
        PROVE  LikeAt(i)'
    <3>1. \A u \in Users : s \notin Toggling(u, i) /\ s \notin Toggling(u, i)'
      BY <2>3 DEF Toggling
    <3> QED
      BY <2>1, <2>3, <3>1, OtherPairs, LikeSame DEF LikeAt
  <2>4. ASSUME NEW s \in Slots, CountView(s) \/ LogView(s) \/ AnswerToggle(s) \/ CountUse(s)
               \/ LogUse(s) \/ CopyResource(s) \/ CommitFork(s) \/ GrantBadge(s) \/ MissView(s)
        PROVE  LikeAt(i)'
    <3>1. slot[s].pc \in PC \ TogglePC /\ slot[s].pc # "idle"
      BY <2>4 DEF CountView, LogView, AnswerToggle, CountUse, LogUse, CopyResource, CommitFork,
                  GrantBadge, MissView, At, PC, ViewPC, TogglePC
    <3>2. Leave(s) \/ \E pc \in {"logView", "logUse", "commit"} : Goto(s, pc)
      BY <2>4 DEF CountView, LogView, AnswerToggle, CountUse, LogUse, CopyResource, CommitFork,
                  GrantBadge, MissView
    <3>3. slot'[s].pc \notin TogglePC /\ \A t \in Slots : t # s => slot'[t] = slot[t]
      BY <3>2 DEF Leave, Goto, SlotsOK, ASlot, IdleSlot, TogglePC
    <3>4. UNCHANGED likes
      BY <2>4 DEF CountView, LogView, AnswerToggle, CountUse, LogUse, CopyResource, CommitFork,
                  GrantBadge, MissView, tables
    <3>5. UNCHANGED count \/ \E c \in {"view", "use", "fork"} : count' = Incremented(slot[s].item, c)
      BY <2>4 DEF CountView, LogView, AnswerToggle, CountUse, LogUse, CopyResource, CommitFork,
                  GrantBadge, MissView, tables
    <3>6. count'[i]["like"] = count[i]["like"]
      <4>1. slot[s].item \in Items
        BY <3>1, ServedSlot
      <4>2. {"view", "use", "fork"} \subseteq Counters
        BY DEF Counters
      <4> QED
        BY <1>0, <3>5, <4>1, <4>2, Counted
    <3> QED
      BY <2>3, <3>1, <3>3, <3>4, <3>6
  <2>5. CASE \E s \in Slots : SlotStep(s) \/ MissView(s)
    BY <2>2, <2>4, <2>5 DEF SlotStep
  <2>6. CASE \E s \in Slots : Fail(s)
    <3>1. PICK s \in Slots : Fail(s)
      BY <2>6
    <3>2. slot[s].item = i => "like" \notin Half(s)
      BY <3>1 DEF Fail, CountsOK
    <3>3. \A t \in Slots : slot'[t] = IF t \in {s} THEN IdleSlot ELSE slot[t]
      BY <3>1 DEF Fail, Leave, SlotsOK
    <3>4. UNCHANGED <<likes, count>>
      BY <3>1 DEF Fail, tables
    <3>5. \A t \in {s} : slot[t].item = i => slot[t].pc \notin {"incrementLike", "decrementLike"}
      BY <3>2, HalfAt DEF HalfOfPC
    <3> QED
      BY <2>1, <3>3, <3>4, <3>5, LikeGone
  <2>7. CASE CrashAPI
    <3>1. Settled(i, "like")
      BY <1>0, <2>7 DEF CrashAPI
    <3>2. \A t \in Slots : slot[t].item = i => slot[t].pc \notin {"incrementLike", "decrementLike"}
      BY <3>1, HalfAt DEF Settled, HalfOfPC
    <3>3. UNCHANGED <<likes, count>> /\ \A t \in Slots : slot'[t] = IF t \in Slots THEN IdleSlot ELSE slot[t]
      BY <2>7 DEF CrashAPI, tables
    <3> QED
      BY <2>1, <3>2, <3>3, LikeGone
  <2>8. CASE \E s \in Slots : Request(s)
    <3>1. PICK s \in Slots : Request(s)
      BY <2>8
    <3>2. UNCHANGED <<likes, count>>
      BY <3>1, RequestFrame DEF tables
    <3>3. CASE \E pc \in PC \ TogglePC, u \in Users, j \in Published, job \in Jobs \cup {None} :
                 Begin(s, pc, u, j, job)
      BY <2>3, <3>2, <3>3 DEF Begin, SlotsOK, TogglePC
    <3>4. CASE \E u \in Users, j \in Published : ToggleLike(s, u, j)
      <4>1. PICK u \in Users, j \in Published : ToggleLike(s, u, j)
        BY <3>4
      <4> DEFINE pc == IF <<u, j>> \in likes THEN "deleteLike" ELSE "insertLike"
      <4>2. slot' = [slot EXCEPT ![s] = [pc |-> pc, user |-> u, item |-> j, job |-> None]]
            /\ slot[s].pc = "idle"
        BY <4>1 DEF ToggleLike, Begin, IsLiked
      <4>3. /\ slot'[s].pc = pc /\ slot'[s].user = u /\ slot'[s].item = j
            /\ \A t \in Slots : t # s => slot'[t] = slot[t]
        BY <4>2 DEF SlotsOK
      <4>4. \A v \in Users : s \notin Toggling(v, i)
        BY <4>2 DEF Toggling, TogglePC
      <4>5. \A v \in Users : <<v, i>> # <<u, j>> => (Credit(v, i)' <=> Credit(v, i)) /\ Alone(v, i)'
        <5> SUFFICES ASSUME NEW v \in Users, <<v, i>> # <<u, j>>
                     PROVE  (Credit(v, i)' <=> Credit(v, i)) /\ Alone(v, i)'
          OBVIOUS
        <5>1. s \notin Toggling(v, i)'
          BY <4>3 DEF Toggling
        <5>2. Alone(v, i)
          BY <2>1 DEF LikeAt
        <5> QED
          BY <3>2, <4>3, <4>4, <5>1, <5>2, OtherPairs
      <4>6. CASE i = j
        <5>1. ~Busy(TogglePC, u, i)
          BY <4>1, <4>6 DEF ToggleLike, Disturb, CountsOK
        <5>2. Toggling(u, i) = {}
          BY <5>1 DEF Busy, Toggling
        <5>3. Toggling(u, i)' = {s}
          BY <4>3, <4>6, <5>2 DEF Toggling, TogglePC
        <5>4. Credit(u, i) <=> <<u, i>> \in likes
          BY <5>2 DEF Credit
        <5>5. Credit(u, i)' <=> <<u, i>> \in likes
          BY <3>2, <4>3, <5>3 DEF Credit
        <5>6. Alone(u, i)'
          BY <3>2, <4>3, <4>6, <5>3 DEF Alone
        <5> QED
          BY <2>1, <3>2, <4>5, <5>4, <5>5, <5>6, LikeSame
      <4>7. CASE i # j
        BY <2>1, <3>2, <4>5, <4>7, LikeSame
      <4> QED
        BY <4>6, <4>7
    <3> QED
      BY <3>1, <3>3, <3>4 DEF Request, GetDetail, ForkItem, VerifyItem, TrackUsage,
         FindItemIDByResourceID, Active, PC, ViewPC, TogglePC
  <2>9. CASE UNCHANGED <<slot, likes, count>>
    BY <2>1, <2>9, NoPairs, LikeSame DEF LikeAt
  <2>10. CASE Recounting
    <3>1. UNCHANGED count
      BY <1>2, <2>10 DEF Recounting, WorkerStep, RefreshFails, CrashWorker, EnqueueRefresh,
         HandleStatsRefresh, refreshSingleItem, ReadRows, FinishTask, tables
    <3> QED
      BY <2>9, <2>10, <3>1, RecountFrame DEF requestVars
  <2>11. CASE \/ \E offer \in Offers : Publish(offer[1], offer[2], offer[3])
              \/ \E u \in Users, j \in Published : DeleteItem(u, j) \/ HourPasses(u, j)
              \/ \E r \in Resources : DeleteResource(r)
              \/ UNCHANGED vars
    BY <2>9, <2>11 DEF Publish, DeleteItem, HourPasses, DeleteResource, vars, requestVars, tables
  <2> QED
    BY <2>5, <2>6, <2>7, <2>8, <2>10, <2>11 DEF Next, Recounting
<1> QED
  BY <1>1, <1>2

-----------------------------------------------------------------------------
LEMMA CountersInit == Init => PlainInv /\ LikeInv
<1> SUFFICES ASSUME Init PROVE PlainInv /\ LikeInv
  OBVIOUS
<1>1. \A s \in Slots : slot[s].pc = "idle"
  BY DEF Init, IdleSlot
<1>2. Cardinality({}) = 0
  BY FS_EmptySet
<1>3. \A i \in Items, k \in Plain : open[i][k] = {} /\ rows[i][k] = 0
  <2>1. Published = {}
    BY DEF Init, Published
  <2>2. \A i \in Items : forks[i] = {}
    BY <2>1 DEF forks
  <2> QED
    BY <1>1, <1>2, <2>2, Writes DEF Init, open, rows
<1>4. \A u \in Users, i \in Items : Toggling(u, i) = {}
  BY <1>1 DEF Toggling, TogglePC
<1>5. \A i \in Items : credited[i] = {} /\ \A u \in Users : Alone(u, i)
  BY <1>4 DEF credited, Credit, Alone, Init
<1>6. \A i \in Items, k \in Counters : count[i][k] = 0
  BY DEF Init
<1>7. Plain \subseteq Counters /\ "like" \in Counters
  BY DEF Plain, Counters
<1>8. PlainInv
  <2> SUFFICES ASSUME NEW i \in Items, NEW k \in Plain
               PROVE  PlainAt(i, k)
    BY DEF PlainInv
  <2>1. count[i][k] = 0 /\ rows[i][k] = 0 /\ Cardinality(open[i][k]) = 0
    BY <1>2, <1>3, <1>6, <1>7
  <2> QED
    BY <2>1 DEF PlainAt
<1>9. LikeInv
  BY <1>2, <1>5, <1>6, <1>7 DEF LikeInv
<1> QED
  BY <1>8, <1>9

LEMMA CountersCounted ==
  ASSUME TypeOK, PlainInv, LikeInv
  PROVE  CountersExact
<1> SUFFICES ASSUME NEW i \in Published, NEW k \in Counters, k \notin disturbed[i], Settled(i, k)
             PROVE  count[i][k] = Rows(i, k)
  BY DEF CountersExact, Exact
<1>1. i \in Items
  BY TypeParts, PublishedItems
<1>2. CASE k \in Plain
  <2>1. Cardinality(open[i][k]) = 0
    BY <1>1, <1>2, SettledClosed
  <2>2. Rows(i, k) = rows[i][k] /\ rows[i][k] \in Nat
    BY <1>1, <1>2, RowsAsCounted, PlainTypes
  <2> QED
    BY <1>1, <1>2, <2>1, <2>2 DEF PlainInv, PlainAt
<1>3. CASE k = "like"
  <2>1. \A s \in Slots : slot[s].item = i => slot[s].pc \notin {"incrementLike", "decrementLike"}
    BY <1>3, HalfAt DEF Settled, HalfOfPC
  <2>2. credited[i] = {u \in Users : <<u, i>> \in likes}
    BY <1>1, <2>1 DEF credited, Credit, Toggling
  <2>3. Rows(i, "like") = Cardinality({u \in Users : <<u, i>> \in likes})
    BY DEF Rows
  <2> QED
    BY <1>1, <1>3, <2>2, <2>3 DEF LikeInv
<1> QED
  BY <1>2, <1>3 DEF Counters, Plain

(* A counter that nothing has put off says how many rows there are whenever *)
(* no request is between its two writes, however many requests interleave.  *)
THEOREM CountersAreExact == Spec => []CountersExact
<1>1. TypeOK /\ PlainInv /\ LikeInv /\ [Next]_vars => PlainInv' /\ LikeInv'
  BY PlainNext, LikeNext
<1>2. TypeOK /\ PlainInv /\ LikeInv => CountersExact
  BY CountersCounted
<1> QED
  BY <1>1, <1>2, CountersInit, TypeCorrect, PTL DEF Spec
=============================================================================
