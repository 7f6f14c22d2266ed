--------------------------- MODULE PortfolioProofs ---------------------------
(***************************************************************************)
(* The bookings, for any trades, failures and crashes: a position nobody   *)
(* trades shows its lots; lots lose what rows say was sold; a sale books   *)
(* the quantity asked for; rows bear fees and taxes to the cent but for    *)
(* rounding; and what reports and generated queries make of it.            *)
(***************************************************************************)
EXTENDS Portfolio, SumTheorems

LotShape(r) == r = [trade |-> r.trade, position |-> r.position, price |-> r.price,
                    original |-> r.original, remaining |-> r.remaining, fee |-> r.fee]

Shape ==
  /\ order \in Scenarios
  /\ positions = [p \in Positions |-> positions[p]]
  /\ lots = [l \in DOMAIN lots |-> lots[l]]
  /\ \A l \in DOMAIN lots : LotShape(lots[l])
  /\ pc \in [Trades -> PC]
  /\ legs = [t \in Trades |-> legs[t]]
  /\ seen = [t \in Trades |-> seen[t]]
  /\ stale \subseteq Trades
  /\ off \in [Positions -> SUBSET Troubles]

(* A sale writes lots of its own position only. *)
LegsOwn ==
  \A t \in Trades : \A g \in legs[t] :
    g.lot \in DOMAIN lots /\ lots[g.lot].position = Position(t)

Shown(p) == RecalculatePositionFromLots(ListActiveLots(p))

(* What a trade has read and is to write is what the lots still say.  *)
ReadIsFresh ==
  \A t \in Trades : pc[t] = "writeAggregates" /\ t \notin stale => seen[t] = Shown(Position(t))

IInv == Shape /\ LegsOwn /\ ReadIsFresh /\ AggregatesFollow

(* A trade is of one of the positions. *)
LEMMA OrderTyped ==
  ASSUME Shape, NEW t \in Trades
  PROVE  Position(t) \in Positions
BY PortfolioStoreAssumption DEF Shape, Position, TradeInput

(* The sums depend on nothing but the active lots. *)
LEMMA SameLots ==
  ASSUME NEW p, ListActiveLots(p)' = ListActiveLots(p)
  PROVE  Shown(p)' = Shown(p)
BY DEF Shown

(* Without a write to a lot no position shows anything else. *)
LEMMA LotsUnchanged ==
  ASSUME lots' = lots
  PROVE  \A p : Shown(p)' = Shown(p)
BY SameLots DEF ListActiveLots

(* A write to a lot of one position leaves the lots of the others. *)
LEMMA OtherLots ==
  ASSUME Shape, LegsOwn, NEW t \in Trades, NEW q, q # Position(t),
         \/ lots' = CreateFifoLot(t, at[t])
         \/ \E g \in legs[t] : lots' = UpdateLotRemainingQty(g.lot, g.left)
  PROVE  ListActiveLots(q)' = ListActiveLots(q)
<1> DEFINE D == {k \in DOMAIN lots : lots[k].position = q /\ lots[k].remaining > 0}
<1>1. CASE lots' = CreateFifoLot(t, at[t])
  <2>1. DOMAIN lots' = DOMAIN lots \cup {at[t]}
    BY <1>1 DEF CreateFifoLot
  <2>2. \A l \in DOMAIN lots : lots'[l] = lots[l]
    BY <1>1 DEF CreateFifoLot
  <2>3. at[t] \notin DOMAIN lots => lots'[at[t]].position = Position(t)
    BY <1>1 DEF CreateFifoLot, Position
  <2>4. D' = D
    BY <2>1, <2>2, <2>3
  <2> QED
    BY <2>2, <2>4 DEF ListActiveLots
<1>2. CASE \E g \in legs[t] : lots' = UpdateLotRemainingQty(g.lot, g.left)
  <2>1. PICK g \in legs[t] : lots' = [lots EXCEPT ![g.lot].remaining = g.left]
    BY <1>2 DEF UpdateLotRemainingQty
  <2>2. g.lot \in DOMAIN lots /\ lots[g.lot].position = Position(t)
    BY DEF LegsOwn
  <2>3. DOMAIN lots' = DOMAIN lots /\ \A l \in DOMAIN lots : l # g.lot => lots'[l] = lots[l]
    BY <2>1, <2>2 DEF Shape
  <2>4. lots'[g.lot].position = Position(t)
    BY <2>1, <2>2 DEF Shape, LotShape
  <2>5. D' = D /\ g.lot \notin D
    BY <2>2, <2>3, <2>4
  <2> QED
    BY <2>3, <2>5 DEF ListActiveLots
<1> QED
  BY <1>1, <1>2

-----------------------------------------------------------------------------
(* Nothing is booked at first. *)
LEMMA InitOK == Init => IInv
<1> SUFFICES ASSUME Init PROVE IInv
  OBVIOUS
<1>1. Shape
  BY PortfolioStoreAssumption DEF Init, Shape, PC
<1>2. \A p \in Positions : ~Exists(p)
  BY DEF Init, Exists
<1>3. \A t \in Trades : pc[t] = "new" /\ legs[t] = {}
  BY DEF Init
<1> QED
  BY <1>1, <1>2, <1>3 DEF IInv, LegsOwn, ReadIsFresh, AggregatesFollow

(* The tables keep their shape. *)
LEMMA ShapeKept ==
  ASSUME IInv, [Next]_vars
  PROVE  Shape'
<1> USE DEF IInv, PC, Running, Troubles
<1>1. CASE UNCHANGED vars
  BY <1>1 DEF vars, tables, Shape
<1>2. ASSUME NEW t \in Trades, Book(t), order' = order
      PROVE  Shape'
  <2> Position(t) \in Positions
    BY OrderTyped
  <2>1. CASE UpsertForBuy(t)
    BY <1>2, <2>1 DEF UpsertForBuy, Start, Goto, UpsertPosition, Shape
  <2>2. CASE CreateLot(t)
    <3>1. \A l \in DOMAIN lots' : LotShape(lots'[l])
      BY <2>2 DEF CreateLot, CreateFifoLot, Shape, LotShape
    <3> QED
      BY <1>2, <2>2, <3>1 DEF CreateLot, Goto, LotsWritten, Others, CreateFifoLot, Shape
  <2>3. CASE RefuseSale(t)
    BY <1>2, <2>3 DEF RefuseSale, Goto, tables, Shape
  <2>4. CASE MatchLots(t)
    BY <1>2, <2>4 DEF MatchLots, Start, Goto, Mark, Missed, Shape
  <2>5. CASE RecordPnL(t)
    BY <1>2, <2>5 DEF RecordPnL, Goto, Shape
  <2>6. CASE UpdateLot(t)
    <3>1. PICK g \in legs[t] : lots' = [lots EXCEPT ![g.lot].remaining = g.left]
      BY <2>6 DEF UpdateLot, UpdateLotRemainingQty
    <3>2. g.lot \in DOMAIN lots
      BY DEF LegsOwn
    <3>3. \A l \in DOMAIN lots' : LotShape(lots'[l])
      BY <3>1, <3>2 DEF Shape, LotShape
    <3>4. lots' = [l \in DOMAIN lots' |-> lots'[l]]
      BY <3>1, <3>2 DEF Shape
    <3>5. legs' = [u \in Trades |-> legs'[u]]
      BY <2>6 DEF UpdateLot, Shape
    <3>6. pc' \in [Trades -> PC]
      BY <2>6 DEF UpdateLot, Goto, Shape
    <3>7. stale' \subseteq Trades
      BY <2>6 DEF UpdateLot, LotsWritten, Others, Shape
    <3>8. UNCHANGED <<positions, seen, off>>
      BY <2>6 DEF UpdateLot
    <3> QED
      BY <1>2, <3>3, <3>4, <3>5, <3>6, <3>7, <3>8 DEF Shape
  <2>7. CASE ListLots(t)
    BY <1>2, <2>7 DEF ListLots, Goto, tables, Shape
  <2>8. CASE WriteAggregates(t)
    BY <1>2, <2>8 DEF WriteAggregates, Goto, UpdatePositionAggregates, Shape
  <2> QED
    BY <1>2, <2>1, <2>2, <2>3, <2>4, <2>5, <2>6, <2>7, <2>8 DEF Book
<1>3. ASSUME NEW S \in SUBSET Trades, Stop(S), order' = order
      PROVE  Shape'
  <2>1. off' \in [Positions -> SUBSET Troubles]
    BY <1>3 DEF Stop, Harm, Shape
  <2> QED
    BY <1>3, <2>1 DEF Stop, tables, Shape
<1> QED
  BY <1>1, <1>2, <1>3 DEF Next, Fail, Crash

(* Matches are of lots of the position, and lots do not move. *)
LEMMA LegsOwnKept ==
  ASSUME IInv, [Next]_vars
  PROVE  LegsOwn'
<1> USE DEF IInv
<1>1. ASSUME UNCHANGED <<order, lots, legs>>
      PROVE  LegsOwn'
  BY <1>1 DEF LegsOwn, Position
<1>2. ASSUME NEW t \in Trades, Book(t), order' = order
      PROVE  LegsOwn'
  <2>1. CASE CreateLot(t)
    <3>1. legs' = legs /\ DOMAIN lots \subseteq DOMAIN lots' /\ \A l \in DOMAIN lots : lots'[l] = lots[l]
      BY <2>1 DEF CreateLot, CreateFifoLot
    <3> QED
      BY <1>2, <3>1 DEF LegsOwn, Position
  <2>2. CASE MatchLots(t)
    <3> DEFINE L == ListActiveLots(Position(t))
    <3>1. lots' = lots /\ legs' = [legs EXCEPT ![t] = ComputeFifoSell(L, order[t].qty)]
      BY <2>2 DEF MatchLots
    <3>2. \A g \in ComputeFifoSell(L, order[t].qty) : g.lot \in DOMAIN L
      BY DEF ComputeFifoSell, Leg
    <3>3. \A l \in DOMAIN L : l \in DOMAIN lots /\ lots[l].position = Position(t)
      BY DEF ListActiveLots
    <3> HIDE DEF L
    <3> QED
      BY <1>2, <3>1, <3>2, <3>3 DEF LegsOwn, Position, Shape
  <2>3. CASE UpdateLot(t)
    <3>1. PICK g \in legs[t] : /\ lots' = [lots EXCEPT ![g.lot].remaining = g.left]
                              /\ legs' = [legs EXCEPT ![t] = @ \ {g}]
      BY <2>3 DEF UpdateLot, UpdateLotRemainingQty
    <3>2. g.lot \in DOMAIN lots
      BY DEF LegsOwn
    <3>3. DOMAIN lots' = DOMAIN lots
      BY <3>1, <3>2 DEF Shape
    <3>4. \A l \in DOMAIN lots : lots'[l].position = lots[l].position
      BY <3>1, <3>2 DEF Shape, LotShape
    <3>5. \A u \in Trades : legs'[u] \subseteq legs[u]
      BY <3>1 DEF Shape
    <3> QED
      BY <1>2, <3>3, <3>4, <3>5 DEF LegsOwn, Position
  <2>4. CASE UpsertForBuy(t) \/ RefuseSale(t) \/ RecordPnL(t) \/ ListLots(t) \/ WriteAggregates(t)
    BY <1>1, <1>2, <2>4 DEF UpsertForBuy, RefuseSale, RecordPnL, ListLots, WriteAggregates, tables
  <2> QED
    BY <1>2, <2>1, <2>2, <2>3, <2>4 DEF Book
<1>3. ASSUME NEW S \in SUBSET Trades, Stop(S), order' = order
      PROVE  LegsOwn'
  <2>1. \A u \in Trades : legs'[u] \subseteq legs[u]
    BY <1>3 DEF Stop
  <2> QED
    BY <1>3, <2>1 DEF LegsOwn, Position, Stop, tables
<1>4. CASE UNCHANGED vars
  BY <1>1, <1>4 DEF vars, tables
<1> QED
  BY <1>2, <1>3, <1>4 DEF Next, Fail, Crash

(* The lots a trade wrote make every reader of the position stale, but the   *)
(* trade itself, which has not read yet.                                     *)
LEMMA ReadIsFreshKept ==
  ASSUME IInv, [Next]_vars
  PROVE  ReadIsFresh'
<1> USE DEF IInv
<1>1. ASSUME lots' = lots, order' = order, seen' = seen,
             \A t \in Trades : pc'[t] = "writeAggregates" /\ t \notin stale'
                           => pc[t] = "writeAggregates" /\ t \notin stale
      PROVE  ReadIsFresh'
  BY <1>1, LotsUnchanged DEF ReadIsFresh, Position
<1>2. ASSUME NEW t \in Trades, order' = order, seen' = seen, pc[t] # "writeAggregates",
             \/ lots' = CreateFifoLot(t, at[t])
             \/ \E g \in legs[t] : lots' = UpdateLotRemainingQty(g.lot, g.left),
             LotsWritten(t), NEW next, pc' = [pc EXCEPT ![t] = next], next # "writeAggregates"
      PROVE  ReadIsFresh'
  <2> SUFFICES ASSUME NEW u \in Trades, pc'[u] = "writeAggregates", u \notin stale'
               PROVE  seen'[u] = Shown(Position(u))'
    BY DEF ReadIsFresh
  <2>1. u # t /\ pc[u] = "writeAggregates" /\ u \notin stale
    BY <1>2 DEF Shape, LotsWritten
  <2>2. Position(u) # Position(t)
    BY <1>2, <2>1 DEF LotsWritten, Others
  <2>3. ListActiveLots(Position(u))' = ListActiveLots(Position(u))
    <3>1. Position(u)' = Position(u)
      BY <1>2 DEF Position
    <3>2. \A q : q # Position(t) => ListActiveLots(q)' = ListActiveLots(q)
      BY <1>2, OtherLots
    <3> QED
      BY <2>2, <3>1, <3>2 DEF ListActiveLots
  <2>4. seen[u] = Shown(Position(u))
    BY <2>1 DEF ReadIsFresh
  <2> QED
    BY <1>2, <2>3, <2>4 DEF Shown
<1>3. ASSUME NEW t \in Trades, Book(t), order' = order
      PROVE  ReadIsFresh'
  <2>1. CASE UpsertForBuy(t) \/ RefuseSale(t) \/ MatchLots(t) \/ RecordPnL(t)
    BY <1>1, <1>3, <2>1 DEF UpsertForBuy, RefuseSale, MatchLots, RecordPnL, Start, Goto, tables, Shape
  <2>2. CASE CreateLot(t)
    BY <1>2, <1>3, <2>2 DEF CreateLot, Goto
  <2>3. CASE UpdateLot(t)
    <3>1. PICK g \in legs[t] : /\ lots' = UpdateLotRemainingQty(g.lot, g.left)
                              /\ pc' = [pc EXCEPT ![t] = IF legs[t] = {g} THEN "list" ELSE "record"]
      BY <2>3 DEF UpdateLot, Goto
    <3>2. (IF legs[t] = {g} THEN "list" ELSE "record") # "writeAggregates"
      OBVIOUS
    <3>3. seen' = seen /\ pc[t] # "writeAggregates" /\ LotsWritten(t)
      BY <2>3 DEF UpdateLot
    <3> QED
      BY <1>2, <1>3, <3>1, <3>2, <3>3
  <2>4. CASE ListLots(t)
    <3>1. \A p : Shown(p)' = Shown(p)
      BY <2>4, LotsUnchanged DEF ListLots, tables
    <3>2. seen'[t] = Shown(Position(t))
      BY <2>4 DEF ListLots, Shown, Shape
    <3>3. \A u \in Trades \ {t} : seen'[u] = seen[u] /\ pc'[u] = pc[u] /\ (u \in stale' <=> u \in stale)
      BY <2>4 DEF ListLots, Goto, Shape
    <3> QED
      BY <1>3, <3>1, <3>2, <3>3 DEF ReadIsFresh, Position
  <2>5. CASE WriteAggregates(t)
    <3>1. \A p : Shown(p)' = Shown(p)
      BY <2>5, LotsUnchanged DEF WriteAggregates
    <3>2. pc'[t] # "writeAggregates"
      BY <2>5 DEF WriteAggregates, Goto, Shape
    <3>3. \A u \in Trades \ {t} : seen'[u] = seen[u] /\ pc'[u] = pc[u] /\ (u \in stale' <=> u \in stale)
      BY <2>5 DEF WriteAggregates, Goto, Shape
    <3> QED
      BY <1>3, <3>1, <3>2, <3>3 DEF ReadIsFresh, Position
  <2> QED
    BY <1>3, <2>1, <2>2, <2>3, <2>4, <2>5 DEF Book
<1>4. ASSUME NEW S \in SUBSET Trades, Stop(S), order' = order
      PROVE  ReadIsFresh'
  <2>1. \A p : Shown(p)' = Shown(p)
    BY <1>4, LotsUnchanged DEF Stop, tables
  <2>2. \A u \in Trades : pc'[u] = "writeAggregates" =>
          u \notin S /\ pc[u] = "writeAggregates" /\ seen'[u] = seen[u] /\ (u \in stale' <=> u \in stale)
    BY <1>4 DEF Stop
  <2> QED
    BY <1>4, <2>1, <2>2 DEF ReadIsFresh, Position
<1>5. CASE UNCHANGED vars
  BY <1>1, <1>5 DEF vars, tables
<1> QED
  BY <1>3, <1>4, <1>5 DEF Next, Fail, Crash
(* What a step of a trade leaves of the other positions. *)
LEMMA OthersKept ==
  ASSUME IInv, NEW t \in Trades, Book(t), order' = order,
         NEW p \in Positions, p # Position(t)
  PROVE  /\ positions'[p] = positions[p] /\ off'[p] = off[p]
         /\ Quiet(p)' => Quiet(p)
         /\ Shown(p)' = Shown(p)
<1> USE DEF IInv
<1>1. positions'[p] = positions[p]
  BY OrderTyped DEF Book, UpsertForBuy, CreateLot, RefuseSale, MatchLots, RecordPnL, UpdateLot, ListLots,
     WriteAggregates, UpsertPosition, UpdatePositionAggregates, tables, Shape
<1>2. off'[p] = off[p]
  BY OrderTyped DEF Book, UpsertForBuy, CreateLot, RefuseSale, MatchLots, RecordPnL, UpdateLot, ListLots,
     WriteAggregates, Mark, tables, Shape
<1>3. \A u \in Trades \ {t} : pc'[u] = pc[u]
  BY DEF Book, UpsertForBuy, CreateLot, RefuseSale, MatchLots, RecordPnL, UpdateLot, ListLots,
     WriteAggregates, Start, Goto, Shape
<1>4. Quiet(p)' => Quiet(p)
  BY <1>3 DEF Quiet, Position
<1>5. \/ lots' = lots
      \/ lots' = CreateFifoLot(t, at[t])
      \/ \E g \in legs[t] : lots' = UpdateLotRemainingQty(g.lot, g.left)
  BY DEF Book, UpsertForBuy, CreateLot, RefuseSale, MatchLots, RecordPnL, UpdateLot, ListLots,
     WriteAggregates, tables
<1>6. Shown(p)' = Shown(p)
  BY <1>5, LotsUnchanged, OtherLots, SameLots
<1> QED
  BY <1>1, <1>2, <1>4, <1>6

(* The last trade of a position leaves what the lots say. *)
LEMMA FollowKept ==
  ASSUME IInv, [Next]_vars
  PROVE  AggregatesFollow'
<1> SUFFICES ASSUME NEW p \in Positions, Exists(p)', Quiet(p)', "aggregates" \notin off'[p]
             PROVE  positions'[p] = Shown(p)'
  BY DEF AggregatesFollow, Shown
<1>a. Exists(p) /\ Quiet(p) /\ "aggregates" \notin off[p] => positions[p] = Shown(p)
  BY DEF IInv, AggregatesFollow, Shown
<1> USE DEF IInv
<1>1. ASSUME NEW t \in Trades, Book(t), order' = order
      PROVE  positions'[p] = Shown(p)'
  <2>1. CASE p # Position(t)
    BY <1>1, <1>a, <2>1, OthersKept DEF Exists
  <2>2. CASE p = Position(t) /\ RefuseSale(t)
    <3>1. Quiet(p)
      BY <1>1, <2>2 DEF RefuseSale, Goto, Quiet, Position, Running, Shape
    <3> QED
      BY <1>1, <1>a, <2>2, <3>1, LotsUnchanged DEF RefuseSale, tables, Exists
  <2>3. CASE p = Position(t) /\ WriteAggregates(t)
    <3>1. t \notin stale
      BY <2>3 DEF WriteAggregates, Shape
    <3>2. seen[t] = Shown(p)
      BY <2>3, <3>1 DEF WriteAggregates, ReadIsFresh
    <3>3. positions'[p] = seen[t]
      BY <2>3 DEF WriteAggregates, UpdatePositionAggregates, Shape
    <3>4. Shown(p)' = Shown(p)
      BY <2>3, LotsUnchanged DEF WriteAggregates
    <3> QED
      BY <3>2, <3>3, <3>4
  <2>4. CASE p = Position(t) /\ ~RefuseSale(t) /\ ~WriteAggregates(t)
    <3>1. pc'[t] \in Running
      BY <1>1, <2>4 DEF Book, UpsertForBuy, CreateLot, MatchLots, RecordPnL, UpdateLot, ListLots,
         Start, Goto, Running, Shape
    <3> QED
      BY <1>1, <2>4, <3>1 DEF Quiet, Position
  <2> QED
    BY <2>1, <2>2, <2>3, <2>4
<1>2. ASSUME NEW S \in SUBSET Trades, Stop(S), order' = order, \A t \in S : pc[t] \in Running
      PROVE  positions'[p] = Shown(p)'
  <2>1. off'[p] = off[p] \cup UNION {Harm(t) : t \in {u \in S : Position(u) = p}}
    BY <1>2 DEF Stop
  <2>2. \A t \in S : "aggregates" \in Harm(t)
    BY DEF Harm
  <2>3. "aggregates" \notin off[p] /\ \A t \in S : Position(t) # p
    BY <2>1, <2>2
  <2>4. Quiet(p)
    BY <1>2, <2>3 DEF Quiet, Position, Stop
  <2> QED
    BY <1>2, <1>a, <2>3, <2>4, LotsUnchanged DEF Stop, tables, Exists
<1>3. CASE UNCHANGED vars
  BY <1>3, <1>a, LotsUnchanged DEF vars, tables, Exists, Quiet, Position
<1> QED
  BY <1>1, <1>2, <1>3 DEF Next, Fail, Crash

-----------------------------------------------------------------------------
(* Whatever the trades do, fail and crash. *)
LEMMA Invariant == Spec => []IInv
<1>1. IInv /\ [Next]_vars => IInv'
  BY ShapeKept, LegsOwnKept, ReadIsFreshKept, FollowKept DEF IInv
<1> QED
  BY InitOK, <1>1, PTL DEF Spec

(* A position nobody trades shows its lots, for any trades and failures.    *)
THEOREM AggregatesFollowLots == Spec => []AggregatesFollow
<1>1. IInv => AggregatesFollow
  BY DEF IInv
<1> QED
  BY Invariant, <1>1, PTL

-----------------------------------------------------------------------------
(* The FIFO engine, for any table of lots.                                  *)

LotTable(L) ==
  /\ IsFiniteSet(DOMAIN L) /\ DOMAIN L \subseteq Nat /\ \E n \in Nat : \A l \in DOMAIN L : l < n
  /\ \A l \in DOMAIN L : L[l].remaining \in Nat /\ L[l].remaining > 0 /\ L[l].price \in Nat

(* What lots have left is a natural. *)
LEMMA RemainingType ==
  ASSUME NEW L, LotTable(L), NEW D \in SUBSET DOMAIN L
  PROVE  Remaining(L, D) \in Nat /\ IsFiniteSet(D)
<1> DEFINE f == [l \in D |-> L[l].remaining]
<1>1. f \in [D -> Nat] /\ IsFiniteSet(D)
  BY FS_Subset DEF LotTable
<1> HIDE DEF f
<1>2. Sum(f) \in Nat
  BY <1>1, SumNonNegative
<1> QED BY <1>1, <1>2 DEF Remaining, f

(* A lot is asked for the quantity of the sale at most. *)
LEMMA WantedType ==
  ASSUME NEW L, LotTable(L), NEW qty \in Nat, NEW l \in DOMAIN L
  PROVE  Wanted(L, qty, l) \in Int /\ Wanted(L, qty, l) <= qty
<1>1. Remaining(L, {k \in DOMAIN L : k < l}) \in Nat
  BY RemainingType
<1> QED BY <1>1 DEF Wanted

(* A leg takes something of its lot and no more than there is.              *)
LEMMA LegFacts ==
  ASSUME NEW L, LotTable(L), NEW qty \in Nat, NEW g \in ComputeFifoSell(L, qty)
  PROVE  /\ g \in FifoLeg /\ g.lot \in DOMAIN L /\ g = Leg(L, qty, g.lot) /\ g.qty = SellQty(L, qty, g.lot)
         /\ Wanted(L, qty, g.lot) > 0
         /\ g.qty > 0 /\ g.left + g.qty = L[g.lot].remaining
<1>1. PICK l \in DOMAIN L : Wanted(L, qty, l) > 0 /\ g = Leg(L, qty, l)
  BY DEF ComputeFifoSell
<1>2. Wanted(L, qty, l) \in Int
  BY WantedType
<1>3. L[l].remaining \in Nat /\ L[l].remaining > 0 /\ l \in Nat
  BY DEF LotTable
<1>4. SellQty(L, qty, l) \in Nat /\ SellQty(L, qty, l) > 0 /\ SellQty(L, qty, l) <= L[l].remaining
  BY <1>1, <1>2, <1>3 DEF SellQty
<1>5. /\ g = [lot |-> l, qty |-> SellQty(L, qty, l), left |-> L[l].remaining - SellQty(L, qty, l)]
      /\ g.lot = l /\ g.qty = SellQty(L, qty, l) /\ g.left = L[l].remaining - SellQty(L, qty, l)
  BY <1>1 DEF Leg
<1>6. L[l].remaining - SellQty(L, qty, l) \in Nat
  BY <1>3, <1>4
<1> HIDE DEF SellQty, Wanted
<1>7. g \in FifoLeg
  BY <1>3, <1>4, <1>5, <1>6 DEF FifoLeg
<1>8. g.left + g.qty = L[g.lot].remaining /\ g.qty > 0
  BY <1>3, <1>4, <1>5
<1> QED BY <1>1, <1>5, <1>7, <1>8

(* The aggregates of a position are naturals. *)
LEMMA AggregatesType ==
  ASSUME NEW L, LotTable(L)
  PROVE  RecalculatePositionFromLots(L) \in Aggregates
<1> DEFINE f == [l \in DOMAIN L |-> L[l].price * L[l].remaining]
<1>1. f \in [DOMAIN L -> Nat] /\ IsFiniteSet(DOMAIN L)
  <2>1. \A a \in Nat, b \in Nat : a * b \in Nat
    OBVIOUS
  <2> QED BY <2>1 DEF LotTable
<1> HIDE DEF f
<1>2. Sum(f) \in Nat
  BY <1>1, SumNonNegative
<1>3. Remaining(L, DOMAIN L) \in Nat
  BY RemainingType
<1> QED BY <1>2, <1>3 DEF RecalculatePositionFromLots, Aggregates, f

(* Rounding yields an integer. *)
LEMMA RoundType ==
  ASSUME NEW n \in Int, NEW d \in Nat, d > 0
  PROVE  Round(n, d) \in Int
<1>1. 2 * d \in Nat /\ 2 * d > 0
  OBVIOUS
<1>2. \A a \in Int, b \in Nat : b > 0 => a \div b \in Int
  OBVIOUS
<1>3. 2 * n + d \in Int /\ d - 2 * n \in Int
  OBVIOUS
<1>4. (2 * n + d) \div (2 * d) \in Int /\ (d - 2 * n) \div (2 * d) \in Int
  BY <1>1, <1>2, <1>3
<1> QED BY <1>4 DEF Round

(* Rounding is off by half at most. *)
LEMMA RoundNear ==
  ASSUME NEW n \in Int, NEW d \in Nat, d > 0
  PROVE  -d <= 2 * (d * Round(n, d)) - 2 * n /\ 2 * (d * Round(n, d)) - 2 * n <= d
<1>1. \A a \in Int, b \in Nat : b > 0 =>
        a \div b \in Int /\ b * (a \div b) <= a /\ a < b * (a \div b) + b
  OBVIOUS
<1>2. 2 * d \in Nat /\ 2 * d > 0 /\ 2 * n + d \in Int /\ d - 2 * n \in Int
  OBVIOUS
<1>3. \A q \in Int : (2 * d) * q = 2 * (d * q)
  OBVIOUS
<1>4. CASE n >= 0
  <2> DEFINE q == (2 * n + d) \div (2 * d)
  <2>1. q \in Int /\ (2 * d) * q <= 2 * n + d /\ 2 * n + d < (2 * d) * q + 2 * d
    BY <1>1, <1>2
  <2>2. Round(n, d) = q
    BY <1>4 DEF Round
  <2> HIDE DEF q
  <2>3. d * q \in Int
    BY <2>1
  <2>4. 2 * (d * q) <= 2 * n + d /\ 2 * n + d < 2 * (d * q) + 2 * d
    BY <2>1, <1>3
  <2> QED BY <2>2, <2>3, <2>4
<1>5. CASE ~(n >= 0)
  <2> DEFINE q == (d - 2 * n) \div (2 * d)
  <2>1. q \in Int /\ (2 * d) * q <= d - 2 * n /\ d - 2 * n < (2 * d) * q + 2 * d
    BY <1>1, <1>2
  <2>2. Round(n, d) = -q
    BY <1>5 DEF Round
  <2> HIDE DEF q
  <2>3. d * q \in Int /\ d * (-q) = -(d * q)
    BY <2>1
  <2>4. 2 * (d * q) <= d - 2 * n /\ d - 2 * n < 2 * (d * q) + 2 * d
    BY <2>1, <1>3
  <2> QED BY <2>2, <2>3, <2>4
<1> QED BY <1>4, <1>5

(* A tax is an integer. *)
LEMMA TaxType ==
  ASSUME NEW m \in {"KR", "US"}, NEW price \in Nat, NEW qty \in Nat, NEW gross \in Int
  PROVE  CalculateTax(m, price, qty, gross) \in Int
<1>1. price * qty * KRTransactionTaxRate \in Int /\ gross * USCapitalGainsTaxRate \in Int
  BY DEF KRTransactionTaxRate, USCapitalGainsTaxRate
<1> QED BY <1>1 DEF CalculateTax

-----------------------------------------------------------------------------
(* Types. *)

TypeInv ==
  /\ TypeOK
  /\ \A t \in Trades : pc[t] = "createLot" => at[t] \in 1..clock /\ order[t].type = "BUY"
  /\ \A l \in DOMAIN lots : lots[l].original > 0
  /\ \A t \in Trades : legs[t] # {} => order[t].qty > 0

(* The inputs of the trades are of the assumed kind. *)
LEMMA Orders ==
  ASSUME order \in Scenarios, NEW t \in Trades
  PROVE  order[t] \in TradeInput /\ Position(t) \in Positions /\ (order[t].type = "BUY" => order[t].qty > 0)
BY PortfolioStoreAssumption DEF TradeInput, Position

(* The columns of an input. *)
LEMMA OrderFields ==
  ASSUME order \in Scenarios, NEW t \in Trades
  PROVE  order[t].price \in Nat /\ order[t].qty \in Nat /\ order[t].fee \in Nat
BY Orders DEF TradeInput

(* The columns of a lot. *)
LEMMA LotFields ==
  ASSUME TypeInv, NEW l \in DOMAIN lots
  PROVE  /\ lots[l] \in FifoLot /\ l \in Nat
         /\ lots[l].original \in Nat /\ lots[l].original > 0 /\ lots[l].remaining \in Nat
         /\ lots[l].remaining <= lots[l].original /\ lots[l].price \in Nat /\ lots[l].fee \in Nat
BY DEF TypeInv, TypeOK, StoreTypeOK, FifoLot

(* What a trade reads of the lots is a table the engine can work on. *)
LEMMA ActiveLots ==
  ASSUME TypeInv, NEW p
  PROVE  /\ IsFiniteSet(DOMAIN lots) /\ DOMAIN lots \subseteq Nat
         /\ LotTable(ListActiveLots(p))
         /\ DOMAIN ListActiveLots(p) = {l \in DOMAIN lots : lots[l].position = p /\ lots[l].remaining > 0}
         /\ \A l \in DOMAIN ListActiveLots(p) : l \in DOMAIN lots /\ ListActiveLots(p)[l] = lots[l]
<1>1. IsFiniteSet(DOMAIN lots) /\ DOMAIN lots \subseteq Nat
  <2>1. DOMAIN lots \subseteq 1..clock /\ clock \in Nat
    BY DEF TypeInv, TypeOK, StoreTypeOK
  <2>2. IsFiniteSet(1..clock)
    BY <2>1, FS_Interval
  <2> QED BY <2>1, <2>2, FS_Subset
<1>2. /\ DOMAIN ListActiveLots(p) = {l \in DOMAIN lots : lots[l].position = p /\ lots[l].remaining > 0}
      /\ \A l \in DOMAIN ListActiveLots(p) : l \in DOMAIN lots /\ ListActiveLots(p)[l] = lots[l]
  BY DEF ListActiveLots
<1>3. DOMAIN ListActiveLots(p) \subseteq DOMAIN lots /\ IsFiniteSet(DOMAIN ListActiveLots(p))
  BY <1>1, <1>2, FS_Subset
<1>4. \A l \in DOMAIN ListActiveLots(p) : /\ lots[l].remaining \in Nat /\ lots[l].remaining > 0
                                          /\ lots[l].price \in Nat
  BY <1>2, LotFields
<1>5. \E n \in Nat : \A l \in DOMAIN ListActiveLots(p) : l < n
  <2>1. DOMAIN lots \subseteq 1..clock /\ clock \in Nat /\ clock + 1 \in Nat
    BY DEF TypeInv, TypeOK, StoreTypeOK
  <2>2. \A l \in DOMAIN ListActiveLots(p) : l < clock + 1
    BY <1>2, <2>1
  <2> QED BY <2>1, <2>2
<1> QED BY <1>1, <1>2, <1>3, <1>4, <1>5 DEF LotTable

(* A leg of a sale makes a row of the table. *)
LEMMA RowType ==
  ASSUME TypeInv, NEW t \in Trades, NEW g \in FifoLeg, g.lot \in DOMAIN lots, order[t].qty > 0, NEW date \in Nat
  PROVE  Row(t, g, date) \in RealizedPnL
<1> DEFINE o == order[t]
           lot == lots[g.lot]
           gross == (o.price - lot.price) * g.qty
           tax == CalculateTax(MarketOf[o.position], o.price, g.qty, gross)
           parts == lot.original * o.qty
           fee == (lot.fee * o.qty + o.fee * lot.original) * g.qty
<1>1. o.price \in Nat /\ o.qty \in Nat /\ o.qty > 0 /\ o.fee \in Nat
  BY OrderFields DEF TypeInv, TypeOK, StoreTypeOK
<1>2. lot.price \in Nat /\ lot.original \in Nat /\ lot.original > 0 /\ lot.fee \in Nat
  BY LotFields
<1>3. g.qty \in Nat /\ g.lot \in Nat
  BY DEF FifoLeg
<1>4. MarketOf[o.position] \in {"KR", "US"}
  BY Orders, PortfolioStoreAssumption DEF Position, TypeInv, TypeOK, StoreTypeOK
<1> HIDE DEF o, lot
<1>5. gross \in Int /\ fee \in Int
  BY <1>1, <1>2, <1>3
<1>6. parts \in Nat /\ parts > 0
  <2>1. \A a \in Nat, b \in Nat : a > 0 /\ b > 0 => a * b \in Nat /\ a * b > 0
    OBVIOUS
  <2> QED BY <1>1, <1>2, <2>1
<1> HIDE DEF gross
<1>7. tax \in Int
  BY <1>1, <1>3, <1>4, <1>5, TaxType
<1> HIDE DEF tax, parts, fee
<1>8. Round(fee, parts) \in Int /\ Round(tax, 10000) \in Int
  BY <1>5, <1>6, <1>7, RoundType
<1>9. Round((gross * 10000 - tax) * parts - 10000 * fee, 10000 * parts) \in Int
  <2>1. (gross * 10000 - tax) * parts - 10000 * fee \in Int /\ 10000 * parts \in Nat /\ 10000 * parts > 0
    BY <1>5, <1>6, <1>7
  <2> QED BY <2>1, RoundType
<1>10. Row(t, g, date) = [trade |-> t, lot |-> g.lot, quantity |-> g.qty, gross |-> gross, at |-> date,
          fee |-> Round(fee, parts), tax |-> Round(tax, 10000),
          net |-> Round((gross * 10000 - tax) * parts - 10000 * fee, 10000 * parts)]
  BY DEF Row, o, lot, gross, tax, parts, fee
<1> QED BY <1>3, <1>5, <1>8, <1>9, <1>10 DEF RealizedPnL

(* The bookings start empty. *)
LEMMA TypeInvInit == Init => TypeInv
BY PortfolioStoreAssumption DEF Init, TypeInv, TypeOK, StoreTypeOK, NoPosition, PC, NoAggregates, Aggregates

(* Each step of a trade keeps the types. *)
LEMMA TypeInvBook ==
  ASSUME IInv, TypeInv, NEW t \in Trades, Book(t), order' = order
  PROVE  TypeInv'
<1>t. /\ order \in Scenarios /\ clock \in Nat /\ positions \in [Positions -> Aggregates \cup {NoPosition}]
      /\ DOMAIN lots \subseteq 1..clock
      /\ \A l \in DOMAIN lots : lots[l] \in FifoLot /\ lots[l].remaining <= lots[l].original
      /\ pnls \subseteq RealizedPnL /\ pc \in [Trades -> PC] /\ at \in [Trades -> Nat]
      /\ legs \in [Trades -> SUBSET FifoLeg]
      /\ \A u \in Trades : \A g \in legs[u] : g.lot \in DOMAIN lots /\ g.left <= lots[g.lot].original
      /\ seen \in [Trades -> Aggregates] /\ stale \subseteq Trades /\ faults \in Nat
      /\ off \in [Positions -> SUBSET Troubles]
  BY DEF TypeInv, TypeOK, StoreTypeOK
<1>u. /\ \A u \in Trades : pc[u] = "createLot" => at[u] \in 1..clock /\ order[u].type = "BUY"
      /\ \A l \in DOMAIN lots : lots[l].original > 0
      /\ \A u \in Trades : legs[u] # {} => order[u].qty > 0
  BY DEF TypeInv
<1>o. order[t] \in TradeInput /\ Position(t) \in Positions /\ (order[t].type = "BUY" => order[t].qty > 0)
  BY <1>t, Orders
<1>1. CASE UpsertForBuy(t)
  <2>1. positions' \in [Positions -> Aggregates \cup {NoPosition}]
    <3>1. [quantity |-> order[t].qty, cost |-> order[t].price * order[t].qty] \in Aggregates
      BY <1>o DEF Aggregates, TradeInput
    <3> QED BY <1>1, <1>t, <3>1 DEF UpsertForBuy, UpsertPosition
  <2>2. clock' = clock + 1 /\ at' = [at EXCEPT ![t] = clock + 1] /\ pc' = [pc EXCEPT ![t] = "createLot"]
    BY <1>1 DEF UpsertForBuy, Start, Goto
  <2>3. order[t].type = "BUY" /\ UNCHANGED <<lots, pnls, legs, seen, stale, faults, off>>
    BY <1>1 DEF UpsertForBuy
  <2>4. clock' \in Nat /\ DOMAIN lots' \subseteq 1..clock' /\ pc' \in [Trades -> PC] /\ at' \in [Trades -> Nat]
    BY <1>t, <2>2, <2>3 DEF PC, Running
  <2>5. \A u \in Trades : pc'[u] = "createLot" => at'[u] \in 1..clock' /\ order[u].type = "BUY"
    BY <1>t, <1>u, <2>2, <2>3
  <2> QED BY <1>t, <1>u, <2>1, <2>3, <2>4, <2>5, order' = order DEF TypeInv, TypeOK, StoreTypeOK
<1>2. CASE CreateLot(t)
  <2>1. at[t] \in 1..clock /\ order[t].qty > 0 /\ at[t] \in Nat
    BY <1>2, <1>t, <1>u, <1>o DEF CreateLot
  <2>2. DOMAIN lots' = DOMAIN lots \cup {at[t]} /\ \A l \in DOMAIN lots : lots'[l] = lots[l]
    BY <1>2 DEF CreateLot, CreateFifoLot
  <2>3. at[t] \notin DOMAIN lots =>
          lots'[at[t]] = [trade |-> t, position |-> order[t].position, price |-> order[t].price,
                          original |-> order[t].qty, remaining |-> order[t].qty, fee |-> order[t].fee]
    BY <1>2 DEF CreateLot, CreateFifoLot
  <2>4. at[t] \notin DOMAIN lots =>
          lots'[at[t]] \in FifoLot /\ lots'[at[t]].remaining <= lots'[at[t]].original /\ lots'[at[t]].original > 0
    BY <1>o, <2>1, <2>3 DEF FifoLot, TradeInput
  <2>5. \A l \in DOMAIN lots' : /\ lots'[l] \in FifoLot /\ lots'[l].remaining <= lots'[l].original
                                /\ lots'[l].original > 0
    BY <1>t, <1>u, <2>2, <2>4
  <2>6. pc' = [pc EXCEPT ![t] = "list"] /\ stale' \subseteq Trades
    BY <1>2, <1>t DEF CreateLot, Goto, LotsWritten, Others
  <2>7. UNCHANGED <<clock, positions, pnls, at, legs, seen, faults, off>>
    BY <1>2 DEF CreateLot
  <2>8. pc' \in [Trades -> PC] /\ \A u \in Trades : pc'[u] = "createLot" => pc[u] = "createLot"
    BY <1>t, <2>6 DEF PC, Running
  <2>9. \A u \in Trades : \A g \in legs[u] : g.lot \in DOMAIN lots' /\ g.left <= lots'[g.lot].original
    BY <1>t, <2>2
  <2>10. DOMAIN lots' \subseteq 1..clock
    BY <1>t, <2>1, <2>2
  <2> QED BY <1>t, <1>u, <2>5, <2>6, <2>7, <2>8, <2>9, <2>10, order' = order DEF TypeInv, TypeOK, StoreTypeOK
<1>3. CASE RefuseSale(t)
  <2>1. pc' = [pc EXCEPT ![t] = "refused"] /\ UNCHANGED <<clock, positions, lots, pnls, at, legs, seen, stale, faults, off>>
    BY <1>3 DEF RefuseSale, Goto, tables
  <2>2. pc' \in [Trades -> PC] /\ \A u \in Trades : pc'[u] = "createLot" => pc[u] = "createLot"
    BY <1>t, <2>1 DEF PC, Running
  <2> QED BY <1>t, <1>u, <2>1, <2>2, order' = order DEF TypeInv, TypeOK, StoreTypeOK
<1>4. CASE MatchLots(t)
  <2> DEFINE L == ListActiveLots(Position(t))
  <2>1. /\ Accepted(L, order[t].price, order[t].qty)
        /\ legs' = [legs EXCEPT ![t] = ComputeFifoSell(L, order[t].qty)]
        /\ clock' = clock + 1 /\ at' = [at EXCEPT ![t] = clock + 1] /\ pc' = [pc EXCEPT ![t] = "record"]
        /\ off' = [off EXCEPT ![Position(t)] = @ \cup Missed(t, L)]
        /\ order[t].type = "SELL" /\ UNCHANGED <<positions, lots, pnls, seen, stale, faults>>
    BY <1>4 DEF MatchLots, Start, Goto, Mark
  <2>2. LotTable(L) /\ \A l \in DOMAIN L : l \in DOMAIN lots /\ L[l] = lots[l]
    BY ActiveLots
  <2>3. order[t].qty \in Nat /\ order[t].qty > 0
    BY <1>o, <2>1 DEF Accepted, TradeInput
  <2>4. Missed(t, L) \subseteq Troubles
    BY DEF Missed, Troubles
  <2> HIDE DEF L
  <2>5. \A g \in ComputeFifoSell(L, order[t].qty) :
          g \in FifoLeg /\ g.lot \in DOMAIN lots /\ g.left <= lots[g.lot].original
    <3> SUFFICES ASSUME NEW g \in ComputeFifoSell(L, order[t].qty)
                 PROVE  g \in FifoLeg /\ g.lot \in DOMAIN lots /\ g.left <= lots[g.lot].original
      OBVIOUS
    <3>1. g \in FifoLeg /\ g.lot \in DOMAIN L /\ g.qty > 0 /\ g.left + g.qty = L[g.lot].remaining
      BY <2>2, <2>3, LegFacts
    <3>2. g.left \in Nat /\ g.qty \in Nat
      BY <3>1 DEF FifoLeg
    <3>3. L[g.lot] = lots[g.lot] /\ lots[g.lot].remaining \in Nat /\ lots[g.lot].original \in Nat
          /\ lots[g.lot].remaining <= lots[g.lot].original
      BY <2>2, <3>1, LotFields
    <3> QED BY <2>2, <3>1, <3>2, <3>3
  <2>6. clock' \in Nat /\ DOMAIN lots' \subseteq 1..clock' /\ pc' \in [Trades -> PC] /\ at' \in [Trades -> Nat]
        /\ off' \in [Positions -> SUBSET Troubles]
    BY <1>t, <1>o, <2>1, <2>4 DEF PC, Running
  <2>7. \A u \in Trades : pc'[u] = "createLot" => at'[u] \in 1..clock' /\ order[u].type = "BUY"
    BY <1>t, <1>u, <2>1
  <2>8. legs' \in [Trades -> SUBSET FifoLeg]
    BY <1>t, <2>1, <2>5
  <2>9. \A u \in Trades : (legs'[u] # {} => order[u].qty > 0)
          /\ \A g \in legs'[u] : g.lot \in DOMAIN lots /\ g.left <= lots[g.lot].original
    BY <1>t, <1>u, <2>1, <2>3, <2>5
  <2> QED BY <1>t, <1>u, <2>1, <2>6, <2>7, <2>8, <2>9, order' = order DEF TypeInv, TypeOK, StoreTypeOK
<1>5. CASE RecordPnL(t)
  <2>1. PICK g \in legs[t] : pnls' = pnls \cup {Row(t, g, at[t])}
    BY <1>5 DEF RecordPnL
  <2>2. pc' = [pc EXCEPT ![t] = "update"] /\ UNCHANGED <<clock, positions, lots, at, legs, seen, stale, faults, off>>
    BY <1>5 DEF RecordPnL, Goto
  <2>3. Row(t, g, at[t]) \in RealizedPnL
    <3>1. g \in FifoLeg /\ g.lot \in DOMAIN lots /\ order[t].qty > 0 /\ at[t] \in Nat
      BY <1>t, <1>u
    <3> QED BY <3>1, RowType
  <2>4. pc' \in [Trades -> PC] /\ \A u \in Trades : pc'[u] = "createLot" => pc[u] = "createLot"
    BY <1>t, <2>2 DEF PC, Running
  <2>5. pnls' \subseteq RealizedPnL
    BY <1>t, <2>1, <2>3
  <2> QED BY <1>t, <1>u, <2>2, <2>4, <2>5, order' = order DEF TypeInv, TypeOK, StoreTypeOK
<1>6. CASE UpdateLot(t)
  <2>1. PICK g \in legs[t] : /\ lots' = [lots EXCEPT ![g.lot].remaining = g.left]
                             /\ legs' = [legs EXCEPT ![t] = @ \ {g}]
                             /\ pc' = [pc EXCEPT ![t] = IF legs[t] = {g} THEN "list" ELSE "record"]
    BY <1>6 DEF UpdateLot, UpdateLotRemainingQty, Goto
  <2>2. g \in FifoLeg /\ g.lot \in DOMAIN lots /\ g.left <= lots[g.lot].original /\ g.left \in Nat
    BY <1>t DEF FifoLeg
  <2>3. DOMAIN lots' = DOMAIN lots /\ \A l \in DOMAIN lots : l # g.lot => lots'[l] = lots[l]
    BY <2>1, <2>2 DEF IInv, Shape
  <2>4. /\ lots'[g.lot] \in FifoLot /\ lots'[g.lot].remaining <= lots'[g.lot].original
        /\ lots'[g.lot].original = lots[g.lot].original
    <3>1. lots'[g.lot] = [lots[g.lot] EXCEPT !.remaining = g.left]
      BY <2>1, <2>2 DEF IInv, Shape
    <3>2. lots[g.lot] \in FifoLot
      BY <1>t, <2>2
    <3> QED BY <2>2, <3>1, <3>2 DEF FifoLot
  <2>5. \A l \in DOMAIN lots' : /\ lots'[l] \in FifoLot /\ lots'[l].remaining <= lots'[l].original
                                /\ lots'[l].original = lots[l].original
    BY <1>t, <2>3, <2>4
  <2>6. /\ legs' \in [Trades -> SUBSET FifoLeg] /\ \A u \in Trades : legs'[u] \subseteq legs[u]
    BY <1>t, <2>1
  <2>7. pc' \in [Trades -> PC] /\ \A u \in Trades : pc'[u] = "createLot" => pc[u] = "createLot"
    BY <1>t, <2>1 DEF PC, Running
  <2>8. stale' \subseteq Trades /\ UNCHANGED <<clock, positions, pnls, at, seen, faults, off>>
    BY <1>6, <1>t DEF UpdateLot, LotsWritten, Others
  <2>9. \A u \in Trades : (legs'[u] # {} => order[u].qty > 0)
          /\ \A h \in legs'[u] : h.lot \in DOMAIN lots' /\ h.left <= lots'[h.lot].original
    BY <1>t, <1>u, <2>3, <2>5, <2>6
  <2>10. \A l \in DOMAIN lots' : lots'[l].original > 0
    BY <1>u, <2>3, <2>5
  <2> QED BY <1>t, <1>u, <2>3, <2>5, <2>6, <2>7, <2>8, <2>9, <2>10, order' = order DEF TypeInv, TypeOK, StoreTypeOK
<1>7. CASE ListLots(t)
  <2>1. /\ pc' = [pc EXCEPT ![t] = "writeAggregates"]
        /\ seen' = [seen EXCEPT ![t] = RecalculatePositionFromLots(ListActiveLots(Position(t)))]
        /\ stale' = stale \ {t} /\ UNCHANGED <<clock, positions, lots, pnls, at, legs, faults, off>>
    BY <1>7 DEF ListLots, Goto, tables
  <2>2. RecalculatePositionFromLots(ListActiveLots(Position(t))) \in Aggregates
    BY ActiveLots, AggregatesType
  <2>3. pc' \in [Trades -> PC] /\ \A u \in Trades : pc'[u] = "createLot" => pc[u] = "createLot"
    BY <1>t, <2>1 DEF PC, Running
  <2>4. seen' \in [Trades -> Aggregates] /\ stale' \subseteq Trades
    BY <1>t, <2>1, <2>2
  <2> QED BY <1>t, <1>u, <2>1, <2>3, <2>4, order' = order DEF TypeInv, TypeOK, StoreTypeOK
<1>8. CASE WriteAggregates(t)
  <2>1. /\ pc' = [pc EXCEPT ![t] = "ok"] /\ positions' = [positions EXCEPT ![Position(t)] = seen[t]]
        /\ seen' = [seen EXCEPT ![t] = NoAggregates] /\ stale' = stale \ {t}
        /\ UNCHANGED <<clock, lots, pnls, at, legs, faults>>
    BY <1>8 DEF WriteAggregates, Goto, UpdatePositionAggregates
  <2>2. off' \in [Positions -> SUBSET Troubles]
    BY <1>8, <1>t, <1>o DEF WriteAggregates, Troubles
  <2>3. pc' \in [Trades -> PC] /\ \A u \in Trades : pc'[u] = "createLot" => pc[u] = "createLot"
    BY <1>t, <2>1 DEF PC, Running
  <2>4. /\ seen' \in [Trades -> Aggregates] /\ stale' \subseteq Trades
        /\ positions' \in [Positions -> Aggregates \cup {NoPosition}]
    BY <1>t, <1>o, <2>1 DEF NoAggregates, Aggregates
  <2> QED BY <1>t, <1>u, <2>1, <2>2, <2>3, <2>4, order' = order DEF TypeInv, TypeOK, StoreTypeOK
<1> QED BY <1>1, <1>2, <1>3, <1>4, <1>5, <1>6, <1>7, <1>8 DEF Book

(* Failures and crashes keep them too. *)
LEMMA TypeInvKept ==
  ASSUME IInv, TypeInv, [Next]_vars
  PROVE  TypeInv'
<1>1. CASE UNCHANGED vars
  BY <1>1 DEF vars, tables, TypeInv, TypeOK, StoreTypeOK
<1>2. ASSUME NEW S \in SUBSET Trades, Stop(S), order' = order
      PROVE  TypeInv'
  <2>1. off' \in [Positions -> SUBSET Troubles]
    BY <1>2 DEF Stop, Harm, Troubles, TypeInv, TypeOK
  <2>2. /\ pc' \in [Trades -> PC] /\ legs' \in [Trades -> SUBSET FifoLeg] /\ seen' \in [Trades -> Aggregates]
        /\ \A u \in Trades : legs'[u] \subseteq legs[u] /\ (pc'[u] = "createLot" => pc[u] = "createLot")
        /\ stale' \subseteq Trades /\ faults' \in Nat
    BY <1>2 DEF Stop, TypeInv, TypeOK, PC, NoAggregates, Aggregates
  <2>3. UNCHANGED <<clock, positions, lots, pnls, at>>
    BY <1>2 DEF Stop, tables
  <2> QED BY <1>2, <2>1, <2>2, <2>3 DEF TypeInv, TypeOK, StoreTypeOK
<1> QED BY <1>1, <1>2, TypeInvBook DEF Next, Fail, Crash

-----------------------------------------------------------------------------
(* Rows and legs. *)

MatchInv ==
  \A t \in Trades :
    /\ IsFiniteSet(legs[t])
    /\ legs[t] # {} <=> pc[t] \in {"record", "update"}
    /\ legs[t] # {} => order[t].type = "SELL"
    /\ \A g \in legs[t] : g.qty > 0
    /\ \A g, h \in legs[t] : g.lot = h.lot => g = h

Booking == {"record", "update", "list", "writeAggregates", "ok", "failed"}

(* A row is what the sale and the lot it names make it. *)
IsRow(r) ==
  /\ order[r.trade].type = "SELL" /\ order[r.trade].qty > 0
  /\ r.lot \in DOMAIN lots /\ lots[r.lot].position = Position(r.trade)
  /\ r.quantity > 0
  /\ r = Row(r.trade, [lot |-> r.lot, qty |-> r.quantity, left |-> 0], r.at)

RowFacts ==
  /\ IsFiniteSet(pnls)
  /\ \A r \in pnls : IsRow(r) /\ pc[r.trade] \in Booking

RowsOrdered ==
  /\ \A r, s \in pnls : r.trade = s.trade /\ r.lot = s.lot => r = s
  /\ \A t \in Trades : \A r \in pnls, g \in legs[t] : r.trade = t =>
       /\ r.lot <= g.lot
       /\ pc[t] = "record" => r.lot < g.lot
       /\ r.lot = g.lot => r.quantity = g.qty
  /\ \A t \in Trades : pc[t] = "update" => \E r \in pnls, g \in legs[t] : r.trade = t /\ r.lot = g.lot

BookInv == TypeInv /\ MatchInv /\ RowFacts /\ RowsOrdered

(* The steps that neither match nor book. *)
Aside(t) ==
  /\ UNCHANGED <<order, pnls, legs>>
  /\ \E next \in PC \ {"new", "record", "update", "failed"} : pc' = [pc EXCEPT ![t] = next]
  /\ pc[t] \notin {"record", "update"}

(* What the steps of a trade do to legs and rows: nothing, or they match,   *)
(* record or update.                                                        *)
LEMMA Steps ==
  ASSUME NEW t \in Trades, Book(t), order' = order
  PROVE  Aside(t) \/ MatchLots(t) \/ RecordPnL(t) \/ UpdateLot(t)
<1>1. CASE UpsertForBuy(t)
  BY <1>1 DEF UpsertForBuy, Start, Goto, Aside, PC, Running
<1>2. CASE CreateLot(t)
  BY <1>2 DEF CreateLot, Goto, Aside, PC, Running
<1>3. CASE RefuseSale(t)
  BY <1>3 DEF RefuseSale, Goto, tables, Aside, PC, Running
<1>4. CASE ListLots(t)
  BY <1>4 DEF ListLots, Goto, tables, Aside, PC, Running
<1>5. CASE WriteAggregates(t)
  BY <1>5 DEF WriteAggregates, Goto, Aside, PC, Running
<1> QED BY <1>1, <1>2, <1>3, <1>4, <1>5 DEF Book

(* The other steps leave lots that exist, and their columns but one. *)
LEMMA AsideOK ==
  ASSUME NEW t \in Trades, Aside(t), IInv
  PROVE  /\ UNCHANGED <<order, pnls, legs>> /\ \A u \in Trades \ {t} : pc'[u] = pc[u]
         /\ pc'[t] \notin {"new", "record", "update", "failed"} /\ pc[t] \notin {"record", "update"}
BY DEF Aside, IInv, Shape

(* Matching makes legs of the lots as they are read. *)
LEMMA MatchOK ==
  ASSUME NEW t \in Trades, MatchLots(t), IInv, TypeInv, order' = order
  PROVE  /\ lots' = lots /\ pnls' = pnls /\ \A u \in Trades \ {t} : pc'[u] = pc[u] /\ legs'[u] = legs[u]
         /\ pc[t] = "new" /\ pc'[t] = "record" /\ order[t].type = "SELL"
         /\ legs'[t] = ComputeFifoSell(ListActiveLots(Position(t)), order[t].qty)
         /\ order[t].qty \in Nat /\ order[t].qty > 0
         /\ order[t].qty <= Remaining(ListActiveLots(Position(t)), DOMAIN ListActiveLots(Position(t)))
         /\ off' = [off EXCEPT ![Position(t)] = @ \cup Missed(t, ListActiveLots(Position(t)))]
<1>1. /\ lots' = lots /\ pnls' = pnls /\ order[t].type = "SELL" /\ pc[t] = "new"
      /\ pc' = [pc EXCEPT ![t] = "record"]
      /\ legs' = [legs EXCEPT ![t] = ComputeFifoSell(ListActiveLots(Position(t)), order[t].qty)]
      /\ Accepted(ListActiveLots(Position(t)), order[t].price, order[t].qty)
      /\ off' = [off EXCEPT ![Position(t)] = @ \cup Missed(t, ListActiveLots(Position(t)))]
  BY DEF MatchLots, Start, Goto, Mark
<1>2. pc \in [Trades -> PC] /\ legs \in [Trades -> SUBSET FifoLeg] /\ order \in Scenarios
  BY DEF TypeInv, TypeOK, StoreTypeOK
<1>3. order[t].qty \in Nat
  BY <1>2, OrderFields
<1> QED BY <1>1, <1>2, <1>3 DEF Accepted

(* Recording adds the row of the next leg. *)
LEMMA RecordOK ==
  ASSUME NEW t \in Trades, RecordPnL(t), TypeInv
  PROVE  /\ lots' = lots /\ legs' = legs /\ off' = off /\ \A u \in Trades \ {t} : pc'[u] = pc[u]
         /\ pc[t] = "record" /\ pc'[t] = "update"
         /\ \E g \in legs[t] : IsNext(t, g) /\ pnls' = pnls \cup {Row(t, g, at[t])}
<1>1. pc \in [Trades -> PC]
  BY DEF TypeInv, TypeOK
<1> QED BY <1>1 DEF RecordPnL, Goto

(* Updating takes the next leg away and writes what it leaves. *)
LEMMA UpdateOK ==
  ASSUME NEW t \in Trades, UpdateLot(t), IInv, TypeInv
  PROVE  /\ pnls' = pnls /\ off' = off /\ pc[t] = "update"
         /\ \A u \in Trades \ {t} : pc'[u] = pc[u] /\ legs'[u] = legs[u]
         /\ \E g \in legs[t] : /\ IsNext(t, g) /\ legs'[t] = legs[t] \ {g}
                               /\ DOMAIN lots' = DOMAIN lots /\ g.lot \in DOMAIN lots
                               /\ lots'[g.lot] = [lots[g.lot] EXCEPT !.remaining = g.left]
                               /\ \A l \in DOMAIN lots : l # g.lot => lots'[l] = lots[l]
                               /\ pc'[t] = IF legs[t] = {g} THEN "list" ELSE "record"
<1>1. PICK g \in legs[t] : /\ IsNext(t, g)
                           /\ lots' = [lots EXCEPT ![g.lot].remaining = g.left]
                           /\ legs' = [legs EXCEPT ![t] = @ \ {g}]
                           /\ pc' = [pc EXCEPT ![t] = IF legs[t] = {g} THEN "list" ELSE "record"]
  BY DEF UpdateLot, UpdateLotRemainingQty, Goto
<1>2. pc \in [Trades -> PC] /\ legs \in [Trades -> SUBSET FifoLeg] /\ g.lot \in DOMAIN lots
  BY DEF TypeInv, TypeOK
<1>3. /\ lots'[g.lot] = [lots[g.lot] EXCEPT !.remaining = g.left] /\ DOMAIN lots' = DOMAIN lots
      /\ \A l \in DOMAIN lots : l # g.lot => lots'[l] = lots[l]
  BY <1>1, <1>2 DEF IInv, Shape
<1>4. pnls' = pnls /\ off' = off /\ pc[t] = "update"
  BY DEF UpdateLot
<1>5. /\ \A u \in Trades \ {t} : pc'[u] = pc[u] /\ legs'[u] = legs[u]
      /\ legs'[t] = legs[t] \ {g} /\ pc'[t] = IF legs[t] = {g} THEN "list" ELSE "record"
  BY <1>1, <1>2
<1> HIDE DEF IsNext
<1> QED BY <1>1, <1>2, <1>3, <1>4, <1>5

(* A failure or a crash ends trades and writes nothing. *)
LEMMA StopOK ==
  ASSUME NEW S \in SUBSET Trades, Stop(S), TypeInv
  PROVE  /\ UNCHANGED <<clock, positions, lots, pnls, at>>
         /\ \A u \in Trades : u \notin S => pc'[u] = pc[u] /\ legs'[u] = legs[u]
         /\ \A u \in S : pc'[u] = "failed" /\ legs'[u] = {}
         /\ \A p \in Positions : /\ off[p] \subseteq off'[p]
                                 /\ \A u \in S : Position(u) = p => Harm(u) \subseteq off'[p]
<1>1. /\ UNCHANGED <<clock, positions, lots, pnls, at>>
      /\ pc' = [u \in Trades |-> IF u \in S THEN "failed" ELSE pc[u]]
      /\ legs' = [u \in Trades |-> IF u \in S THEN {} ELSE legs[u]]
      /\ off' = [p \in Positions |-> off[p] \cup UNION {Harm(u) : u \in {v \in S : Position(v) = p}}]
  BY DEF Stop, tables
<1> QED BY <1>1

(* A lot keeps everything but what is left of it. *)
LEMMA LotsKeep ==
  ASSUME IInv, TypeInv, [Next]_vars
  PROVE  /\ order' = order
         /\ \A l \in DOMAIN lots :
              /\ l \in DOMAIN lots' /\ lots'[l].position = lots[l].position /\ lots'[l].price = lots[l].price
              /\ lots'[l].original = lots[l].original /\ lots'[l].fee = lots[l].fee
<1>1. ASSUME lots' = lots
      PROVE  \A l \in DOMAIN lots :
              /\ l \in DOMAIN lots' /\ lots'[l].position = lots[l].position /\ lots'[l].price = lots[l].price
              /\ lots'[l].original = lots[l].original /\ lots'[l].fee = lots[l].fee
  BY <1>1
<1>2. ASSUME NEW t \in Trades, Book(t)
      PROVE  \A l \in DOMAIN lots :
              /\ l \in DOMAIN lots' /\ lots'[l].position = lots[l].position /\ lots'[l].price = lots[l].price
              /\ lots'[l].original = lots[l].original /\ lots'[l].fee = lots[l].fee
  <2>1. CASE CreateLot(t)
    <3>1. DOMAIN lots' = DOMAIN lots \cup {at[t]} /\ \A l \in DOMAIN lots : lots'[l] = lots[l]
      BY <2>1 DEF CreateLot, CreateFifoLot
    <3> QED BY <3>1
  <2>2. CASE UpdateLot(t)
    <3>1. PICK g \in legs[t] : /\ DOMAIN lots' = DOMAIN lots /\ g.lot \in DOMAIN lots
                               /\ lots'[g.lot] = [lots[g.lot] EXCEPT !.remaining = g.left]
                               /\ \A l \in DOMAIN lots : l # g.lot => lots'[l] = lots[l]
      BY <2>2, UpdateOK
    <3>2. lots[g.lot] \in FifoLot
      BY <3>1, LotFields
    <3>3. /\ lots'[g.lot].position = lots[g.lot].position /\ lots'[g.lot].price = lots[g.lot].price
          /\ lots'[g.lot].original = lots[g.lot].original /\ lots'[g.lot].fee = lots[g.lot].fee
      BY <3>1, <3>2 DEF FifoLot
    <3> QED BY <3>1, <3>3
  <2>3. CASE ~CreateLot(t) /\ ~UpdateLot(t)
    <3>1. lots' = lots
      BY <1>2, <2>3 DEF Book, UpsertForBuy, RefuseSale, MatchLots, RecordPnL, ListLots, WriteAggregates, tables
    <3> QED BY <3>1, <1>1
  <2> QED BY <2>1, <2>2, <2>3
<1>3. ASSUME NEW S, Stop(S)
      PROVE  lots' = lots
  BY <1>3 DEF Stop, tables
<1>4. CASE UNCHANGED vars
  BY <1>1, <1>4 DEF vars, tables
<1>5. CASE Next
  BY <1>1, <1>2, <1>3, <1>5 DEF Next, Fail, Crash
<1> QED BY <1>4, <1>5

(* A row stays what its sale and lot made it: a lot loses remaining         *)
(* quantity only.                                                           *)
LEMMA IsRowKept ==
  ASSUME IInv, TypeInv, [Next]_vars, NEW r, IsRow(r)
  PROVE  IsRow(r)'
<1>1. /\ order' = order /\ r.lot \in DOMAIN lots' /\ lots'[r.lot].position = lots[r.lot].position
      /\ lots'[r.lot].price = lots[r.lot].price
      /\ lots'[r.lot].original = lots[r.lot].original /\ lots'[r.lot].fee = lots[r.lot].fee
  BY LotsKeep DEF IsRow
<1> DEFINE g == [lot |-> r.lot, qty |-> r.quantity, left |-> 0]
<1>2. g.lot = r.lot
  OBVIOUS
<1> HIDE DEF g
<1>3. Row(r.trade, g, r.at)' = Row(r.trade, g, r.at)
  BY <1>1, <1>2 DEF Row
<1> QED BY <1>1, <1>3 DEF IsRow, Position, g

(* A recorded leg is a row. *)
LEMMA RowIsRow ==
  ASSUME IInv, TypeInv, MatchInv, NEW t \in Trades, NEW g \in legs[t], NEW date \in Nat
  PROVE  /\ IsRow(Row(t, g, date)) /\ Row(t, g, date).trade = t /\ Row(t, g, date).lot = g.lot
         /\ Row(t, g, date).quantity = g.qty
<1> DEFINE r == Row(t, g, date)
           h == [lot |-> r.lot, qty |-> r.quantity, left |-> 0]
<1>1. r.trade = t /\ r.lot = g.lot /\ r.quantity = g.qty /\ r.at = date
  BY DEF Row
<1>2. Row(t, h, date) = r
  <2>1. h.lot = g.lot /\ h.qty = g.qty
    BY <1>1
  <2> HIDE DEF h
  <2>2. Row(t, h, date) = Row(t, g, date)
    BY <2>1 DEF Row
  <2> QED BY <2>2
<1>3. order[t].type = "SELL" /\ order[t].qty > 0 /\ g.qty > 0
  BY DEF MatchInv, TypeInv
<1>4. g.lot \in DOMAIN lots /\ lots[g.lot].position = Position(t)
  BY DEF IInv, LegsOwn
<1> HIDE DEF r
<1>5. IsRow(r)
  BY <1>1, <1>2, <1>3, <1>4 DEF IsRow
<1> QED BY <1>1, <1>5 DEF r

(* The legs of a match, one per lot, none empty. *)
LEMMA LegsOfMatch ==
  ASSUME NEW L, LotTable(L), NEW qty \in Nat
  PROVE  /\ IsFiniteSet(ComputeFifoSell(L, qty))
         /\ \A g \in ComputeFifoSell(L, qty) : g.qty > 0
         /\ \A g, h \in ComputeFifoSell(L, qty) : g.lot = h.lot => g = h
<1>1. IsFiniteSet(ComputeFifoSell(L, qty))
  <2> DEFINE D == {k \in DOMAIN L : Wanted(L, qty, k) > 0}
             f == [l \in D |-> Leg(L, qty, l)]
  <2>1. IsFiniteSet(D)
    BY FS_Subset DEF LotTable
  <2>2. ComputeFifoSell(L, qty) = {f[l] : l \in D} /\ DOMAIN f = D
    BY DEF ComputeFifoSell
  <2> HIDE DEF D, f
  <2> QED BY <2>1, <2>2, FiniteImage
<1> QED BY <1>1, LegFacts

(* Selling something leaves a leg to book. *)
LEMMA MatchNotEmpty ==
  ASSUME NEW L, LotTable(L), NEW qty \in Nat, qty > 0, qty <= Remaining(L, DOMAIN L)
  PROVE  ComputeFifoSell(L, qty) # {}
<1>1. DOMAIN L # {}
  <2> SUFFICES ASSUME DOMAIN L = {} PROVE FALSE
    OBVIOUS
  <2> DEFINE D == DOMAIN L
             f == [l \in D |-> L[l].remaining]
  <2>1. f \in [{} -> Int]
    OBVIOUS
  <2> HIDE DEF f
  <2>2. Sum(f) = 0
    BY <2>1, SumEmpty
  <2> QED BY <2>2 DEF Remaining, f
<1>2. PICK l \in DOMAIN L : \A k \in DOMAIN L : ~(<<k, l>> \in OpToRel(<, Nat))
  <2>1. DOMAIN L \subseteq Nat
    BY DEF LotTable
  <2> QED BY <1>1, <2>1, NatLessThanWellFounded, WFMin
<1>3. {k \in DOMAIN L : k < l} = {}
  BY <1>2 DEF OpToRel, LotTable
<1>4. Wanted(L, qty, l) = qty
  <2> DEFINE D == {k \in DOMAIN L : k < l}
             f == [k \in D |-> L[k].remaining]
  <2>1. f \in [{} -> Int]
    BY <1>3
  <2> HIDE DEF f
  <2>2. Sum(f) = 0
    BY <2>1, SumEmpty
  <2>3. Wanted(L, qty, l) = qty - Sum(f)
    BY DEF Wanted, Remaining, f
  <2> QED BY <2>2, <2>3
<1> QED BY <1>4 DEF ComputeFifoSell

(* Without legs and rows there is nothing to keep. *)
LEMMA BookInvInit == Init => BookInv
<1> SUFFICES ASSUME Init PROVE BookInv
  OBVIOUS
<1>1. pnls = {} /\ lots = <<>> /\ \A t \in Trades : legs[t] = {} /\ pc[t] = "new"
  BY DEF Init
<1> QED BY <1>1, TypeInvInit, FS_EmptySet DEF BookInv, MatchInv, RowFacts, RowsOrdered

(* A step keeps what is said of legs, *)
LEMMA MatchInvBook ==
  ASSUME IInv, TypeInv, MatchInv, NEW t \in Trades, Book(t), order' = order
  PROVE  MatchInv'
<1> SUFFICES ASSUME NEW u \in Trades
             PROVE  /\ IsFiniteSet(legs'[u])
                    /\ legs'[u] # {} <=> pc'[u] \in {"record", "update"}
                    /\ legs'[u] # {} => order[u].type = "SELL"
                    /\ \A g \in legs'[u] : g.qty > 0
                    /\ \A g, h \in legs'[u] : g.lot = h.lot => g = h
  BY DEF MatchInv
<1>0. /\ IsFiniteSet(legs[u])
      /\ legs[u] # {} <=> pc[u] \in {"record", "update"}
      /\ legs[u] # {} => order[u].type = "SELL"
      /\ \A g \in legs[u] : g.qty > 0
      /\ \A g, h \in legs[u] : g.lot = h.lot => g = h
  BY DEF MatchInv
<1>1. CASE Aside(t)
  <2>1. legs'[u] = legs[u] /\ (pc'[u] \in {"record", "update"} <=> pc[u] \in {"record", "update"})
    BY <1>1, AsideOK
  <2> QED BY <1>0, <2>1
<1>2. CASE MatchLots(t)
  <2>1. CASE u = t
    <3> DEFINE L == ListActiveLots(Position(t))
    <3>1. /\ pc'[t] = "record" /\ order[t].type = "SELL" /\ order[t].qty \in Nat /\ order[t].qty > 0
          /\ legs'[t] = ComputeFifoSell(L, order[t].qty) /\ order[t].qty <= Remaining(L, DOMAIN L)
      BY <1>2, MatchOK
    <3>2. LotTable(L)
      BY ActiveLots
    <3> HIDE DEF L
    <3> QED BY <2>1, <3>1, <3>2, LegsOfMatch, MatchNotEmpty
  <2>2. CASE u # t
    BY <1>0, <1>2, <2>2, MatchOK
  <2> QED BY <2>1, <2>2
<1>3. CASE RecordPnL(t)
  BY <1>0, <1>3, RecordOK
<1>4. CASE UpdateLot(t)
  <2>1. CASE u = t
    <3>1. PICK g \in legs[t] : legs'[t] = legs[t] \ {g} /\ pc'[t] = IF legs[t] = {g} THEN "list" ELSE "record"
      BY <1>4, UpdateOK
    <3>2. IsFiniteSet(legs'[t])
      BY <1>0, <2>1, <3>1, FS_RemoveElement
    <3>3. legs'[t] # {} <=> pc'[t] \in {"record", "update"}
      BY <3>1
    <3> QED BY <1>0, <2>1, <3>1, <3>2, <3>3
  <2>2. CASE u # t
    BY <1>0, <1>4, <2>2, UpdateOK
  <2> QED BY <2>1, <2>2
<1> QED BY <1>1, <1>2, <1>3, <1>4, Steps

(* of rows, *)
LEMMA RowFactsBook ==
  ASSUME IInv, BookInv, NEW t \in Trades, Book(t), order' = order
  PROVE  RowFacts'
<1> USE DEF BookInv
<1>0. [Next]_vars
  BY DEF Next
<1>1. \A r : IsRow(r) => IsRow(r)'
  BY <1>0, IsRowKept
<1>2. IsFiniteSet(pnls) /\ \A r \in pnls : IsRow(r) /\ pc[r.trade] \in Booking /\ r.trade \in Trades
  BY DEF RowFacts, TypeInv, TypeOK, StoreTypeOK, RealizedPnL
<1>3. \A u \in Trades : pc[u] \in Booking => pc'[u] \in Booking
  <2> SUFFICES ASSUME NEW u \in Trades, pc[u] \in Booking PROVE pc'[u] \in Booking
    OBVIOUS
  <2>1. CASE u # t
    BY <2>1, AsideOK, MatchOK, RecordOK, UpdateOK, Steps
  <2>2. CASE u = t
    <3>1. ~UpsertForBuy(t) /\ ~CreateLot(t) /\ ~RefuseSale(t) /\ ~MatchLots(t)
      BY <2>2 DEF UpsertForBuy, CreateLot, RefuseSale, MatchLots, Start, Booking
    <3>2. CASE RecordPnL(t)
      BY <2>2, <3>2, RecordOK DEF Booking
    <3>3. CASE UpdateLot(t)
      BY <2>2, <3>3, UpdateOK DEF Booking
    <3>4. CASE ListLots(t) \/ WriteAggregates(t)
      BY <2>2, <3>4 DEF ListLots, WriteAggregates, Goto, Booking, IInv, Shape
    <3> QED BY <3>1, <3>2, <3>3, <3>4 DEF Book
  <2> QED BY <2>1, <2>2
<1>4. CASE pnls' = pnls
  BY <1>1, <1>2, <1>3, <1>4 DEF RowFacts
<1>5. CASE RecordPnL(t)
  <2>1. PICK g \in legs[t] : pnls' = pnls \cup {Row(t, g, at[t])}
    BY <1>5, RecordOK
  <2> DEFINE R == Row(t, g, at[t])
  <2>2. at[t] \in Nat
    BY DEF TypeInv, TypeOK
  <2>3. IsRow(R) /\ R.trade = t
    BY <2>2, RowIsRow
  <2>4. pc'[t] \in Booking
    BY <1>5, RecordOK DEF Booking
  <2> HIDE DEF R
  <2>5. pnls' = pnls \cup {R}
    BY <2>1 DEF R
  <2>6. IsFiniteSet(pnls')
    BY <1>2, <2>5, FS_AddElement
  <2>7. \A r \in pnls' : IsRow(r)' /\ pc'[r.trade] \in Booking
    BY <1>1, <1>2, <1>3, <2>3, <2>4, <2>5
  <2> QED BY <2>6, <2>7 DEF RowFacts
<1> QED BY <1>4, <1>5, AsideOK, MatchOK, UpdateOK, Steps

(* and of the order the legs are booked in. *)
LEMMA RowsOrderedBook ==
  ASSUME IInv, BookInv, NEW t \in Trades, Book(t), order' = order
  PROVE  RowsOrdered'
<1> USE DEF BookInv
<1>r. \A r, s \in pnls : r.trade = s.trade /\ r.lot = s.lot => r = s
  BY DEF RowsOrdered
<1>o. \A u \in Trades : \A r \in pnls, g \in legs[u] : r.trade = u =>
        /\ r.lot <= g.lot
        /\ pc[u] = "record" => r.lot < g.lot
        /\ r.lot = g.lot => r.quantity = g.qty
  BY DEF RowsOrdered
<1>u. \A u \in Trades : pc[u] = "update" => \E r \in pnls, g \in legs[u] : r.trade = u /\ r.lot = g.lot
  BY DEF RowsOrdered
<1>n. \A u \in Trades : \A g \in legs[u] : g.lot \in Nat
  BY DEF TypeInv, TypeOK, FifoLeg
<1>t. \A r \in pnls : r.trade \in Trades /\ r.lot \in Nat
  BY DEF TypeInv, TypeOK, StoreTypeOK, RealizedPnL
<1>1. CASE Aside(t)
  <2>1. pnls' = pnls /\ legs' = legs /\ \A u \in Trades : pc'[u] \in {"record", "update"} => pc'[u] = pc[u]
    BY <1>1, AsideOK
  <2>2. \A u \in Trades : \A r \in pnls, g \in legs[u] : r.trade = u /\ pc'[u] = "record" => r.lot < g.lot
    BY <1>o, <2>1
  <2> QED BY <1>r, <1>o, <1>u, <2>1, <2>2 DEF RowsOrdered
<1>2. CASE MatchLots(t)
  <2>1. pnls' = pnls /\ (\A u \in Trades \ {t} : pc'[u] = pc[u] /\ legs'[u] = legs[u]) /\ pc[t] = "new" /\ pc'[t] = "record"
    BY <1>2, MatchOK
  <2>2. \A r \in pnls : r.trade \in Trades \ {t}
    BY <1>t, <2>1 DEF RowFacts, Booking
  <2> QED BY <1>r, <1>o, <1>u, <2>1, <2>2 DEF RowsOrdered
<1>3. CASE RecordPnL(t)
  <2>1. /\ legs' = legs /\ (\A u \in Trades \ {t} : pc'[u] = pc[u]) /\ pc[t] = "record" /\ pc'[t] = "update"
    BY <1>3, RecordOK
  <2>2. PICK g \in legs[t] : IsNext(t, g) /\ pnls' = pnls \cup {Row(t, g, at[t])}
    BY <1>3, RecordOK
  <2> DEFINE R == Row(t, g, at[t])
  <2>3. R.trade = t /\ R.lot = g.lot /\ R.quantity = g.qty
    BY RowIsRow DEF TypeInv, TypeOK
  <2> HIDE DEF R
  <2>4. pnls' = pnls \cup {R}
    BY <2>2 DEF R
  <2>5. \A r \in pnls : r.trade = t => r.lot < g.lot
    BY <1>o, <2>1
  <2>6. \A h \in legs[t] : g.lot <= h.lot /\ (g.lot = h.lot => g = h)
    BY <2>2 DEF IsNext, MatchInv
  <2>7. \A r, s \in pnls' : r.trade = s.trade /\ r.lot = s.lot => r = s
    BY <1>r, <1>n, <1>t, <2>3, <2>4, <2>5
  <2>8. \A u \in Trades : \A r \in pnls', h \in legs[u] : r.trade = u =>
          /\ r.lot <= h.lot
          /\ pc'[u] = "record" => r.lot < h.lot
          /\ r.lot = h.lot => r.quantity = h.qty
    BY <1>o, <2>1, <2>3, <2>4, <2>6
  <2>9. \A u \in Trades : pc'[u] = "update" => \E r \in pnls', h \in legs[u] : r.trade = u /\ r.lot = h.lot
    BY <1>u, <2>1, <2>3, <2>4
  <2> QED BY <2>1, <2>7, <2>8, <2>9 DEF RowsOrdered
<1>4. CASE UpdateLot(t)
  <2>1. pnls' = pnls /\ (\A u \in Trades \ {t} : pc'[u] = pc[u] /\ legs'[u] = legs[u])
    BY <1>4, UpdateOK
  <2>2. PICK g \in legs[t] : IsNext(t, g) /\ legs'[t] = legs[t] \ {g} /\ pc'[t] \in {"list", "record"}
    BY <1>4, UpdateOK
  <2>3. \A h \in legs'[t] : h \in legs[t] /\ g.lot < h.lot
    BY <1>n, <2>2 DEF IsNext, MatchInv
  <2>4. \A r \in pnls : r.trade = t => \A h \in legs'[t] : r.lot < h.lot
    <3> SUFFICES ASSUME NEW r \in pnls, r.trade = t, NEW h \in legs'[t]
                 PROVE  r.lot < h.lot
      OBVIOUS
    <3>1. r.lot <= g.lot /\ g.lot < h.lot /\ r.lot \in Nat /\ g.lot \in Nat /\ h.lot \in Nat
      BY <1>o, <1>n, <1>t, <2>2, <2>3
    <3> QED BY <3>1
  <2>5. \A u \in Trades : \A r \in pnls, h \in legs'[u] : r.trade = u =>
          /\ r.lot <= h.lot
          /\ pc'[u] = "record" => r.lot < h.lot
          /\ r.lot = h.lot => r.quantity = h.qty
    <3> SUFFICES ASSUME NEW u \in Trades, NEW r \in pnls, NEW h \in legs'[u], r.trade = u
                 PROVE  /\ r.lot <= h.lot /\ (pc'[u] = "record" => r.lot < h.lot)
                        /\ (r.lot = h.lot => r.quantity = h.qty)
      OBVIOUS
    <3>1. CASE u = t
      <4>1. r.lot < h.lot /\ r.lot \in Nat /\ h.lot \in Nat
        BY <1>n, <1>t, <2>3, <2>4, <3>1
      <4> QED BY <4>1
    <3>2. CASE u # t
      BY <1>o, <2>1, <3>2
    <3> QED BY <3>1, <3>2
  <2>6. \A u \in Trades : pc'[u] = "update" => \E r \in pnls, h \in legs'[u] : r.trade = u /\ r.lot = h.lot
    BY <1>u, <2>1, <2>2
  <2> QED BY <1>r, <2>1, <2>5, <2>6 DEF RowsOrdered
<1> QED BY <1>1, <1>2, <1>3, <1>4, Steps

(* Failures and crashes keep it. *)
LEMMA BookInvStop ==
  ASSUME IInv, BookInv, NEW S \in SUBSET Trades, Stop(S), [Next]_vars
  PROVE  MatchInv' /\ RowFacts' /\ RowsOrdered'
<1> USE DEF BookInv
<1>1. /\ pnls' = pnls /\ lots' = lots /\ order' = order
      /\ \A u \in Trades : u \notin S => pc'[u] = pc[u] /\ legs'[u] = legs[u]
      /\ \A u \in S : pc'[u] = "failed" /\ legs'[u] = {}
  BY StopOK, LotsKeep
<1>2. MatchInv'
  <2>1. IsFiniteSet({})
    BY FS_EmptySet
  <2> QED BY <1>1, <2>1 DEF MatchInv
<1>3. RowFacts'
  <2>1. \A r \in pnls : r.trade \in Trades
    BY DEF TypeInv, TypeOK, StoreTypeOK, RealizedPnL
  <2>2. \A r : IsRow(r) => IsRow(r)'
    BY IsRowKept
  <2> QED BY <1>1, <2>1, <2>2 DEF RowFacts, Booking
<1>4. RowsOrdered'
  <2>1. \A r \in pnls : r.trade \in Trades
    BY DEF TypeInv, TypeOK, StoreTypeOK, RealizedPnL
  <2>2. \A u \in Trades : legs'[u] \subseteq legs[u] /\ (legs'[u] # {} => pc'[u] = pc[u])
                          /\ (pc'[u] = "update" => pc[u] = "update" /\ legs'[u] = legs[u])
    BY <1>1
  <2> QED BY <1>1, <2>1, <2>2 DEF RowsOrdered
<1> QED BY <1>2, <1>3, <1>4

(* Legs and rows, whatever happens. *)
LEMMA BookInvKept ==
  ASSUME IInv, BookInv, [Next]_vars
  PROVE  BookInv'
<1>1. TypeInv'
  BY TypeInvKept DEF BookInv
<1>2. CASE UNCHANGED vars
  <2>1. MatchInv' /\ RowsOrdered'
    BY <1>2 DEF BookInv, MatchInv, RowsOrdered, vars, tables
  <2>2. RowFacts'
    BY <1>2 DEF BookInv, RowFacts, IsRow, Row, Position, vars, tables
  <2> QED BY <1>1, <2>1, <2>2 DEF BookInv
<1>3. ASSUME NEW t \in Trades, Book(t), order' = order
      PROVE  BookInv'
  BY <1>1, <1>3, MatchInvBook, RowFactsBook, RowsOrderedBook DEF BookInv
<1>4. ASSUME NEW S \in SUBSET Trades, Stop(S)
      PROVE  BookInv'
  BY <1>1, <1>4, BookInvStop DEF BookInv
<1> QED BY <1>2, <1>3, <1>4 DEF Next, Fail, Crash

(* What the engine matches adds up to the quantity asked for, if there is   *)
(* that much (fifo_engine.go).                                              *)
LEMMA MatchFills ==
  ASSUME NEW L, LotTable(L), NEW qty \in Nat, qty <= Remaining(L, DOMAIN L)
  PROVE  Sum([g \in ComputeFifoSell(L, qty) |-> g.qty]) = qty
<1> DEFINE D == DOMAIN L
           W == {l \in D : Wanted(L, qty, l) > 0}
           Older(k) == {l \in D : l < k}
           rem == [l \in D |-> L[l].remaining]
           s == [l \in D |-> IF l \in W THEN SellQty(L, qty, l) ELSE 0]
           P(k) == SumFcn(rem)[Older(k)]
           Q(k) == SumFcn(s)[Older(k)]
           G == {k \in Nat : Q(k) = IF qty <= P(k) THEN qty ELSE P(k)}
<1>1. IsFiniteSet(D) /\ D \subseteq Nat /\ W \subseteq D /\ \A l \in D : L[l].remaining \in Nat /\ L[l].remaining > 0
  BY DEF LotTable
<1>2. rem \in [D -> Int] /\ \A l \in D : rem[l] = L[l].remaining
  BY <1>1
<1>3. s \in [D -> Int] /\ \A l \in D : s[l] = IF l \in W THEN SellQty(L, qty, l) ELSE 0
  <2>1. \A l \in D : SellQty(L, qty, l) \in Int
    BY <1>1, WantedType DEF SellQty
  <2> QED BY <2>1
<1>4. ASSUME NEW T \in SUBSET D
      PROVE  Remaining(L, T) = SumFcn(rem)[T]
  <2>1. [l \in T |-> L[l].remaining] = [l \in T |-> rem[l]]
    BY <1>2
  <2> HIDE DEF rem
  <2>2. Sum([l \in T |-> rem[l]]) = SumFcn(rem)[T]
    BY <1>1, <1>2, SumOfRestriction
  <2> QED BY <2>1, <2>2 DEF Remaining
<1>5. \A k : Older(k) \in SUBSET D
  OBVIOUS
<1>6. \A l \in D : Wanted(L, qty, l) = qty - P(l)
  BY <1>4, <1>5 DEF Wanted
<1>a. Additive(rem, D)
  <2> HIDE DEF rem
  <2> QED BY <1>1, <1>2, SumFcnAdd
<1>b. Additive(s, D)
  <2> HIDE DEF s
  <2> QED BY <1>1, <1>3, SumFcnAdd
<1>t. \A T \in SUBSET D : SumFcn(rem)[T] \in Int /\ SumFcn(s)[T] \in Int
  <2> HIDE DEF rem, s
  <2> QED BY <1>1, <1>2, <1>3, SumFcnType
<1>n. \A T \in SUBSET D : SumFcn(rem)[T] \in Nat
  BY <1>4, RemainingType
<1> HIDE DEF rem, s, W
<1>7. 0 \in G
  <2>1. Older(0) = {}
    BY <1>1
  <2>2. SumFcn(rem)[{}] = 0 /\ SumFcn(s)[{}] = 0
    BY <1>a, <1>b DEF Additive
  <2> QED BY <2>1, <2>2
<1>8. ASSUME NEW k \in Nat, k \in G
      PROVE  k + 1 \in G
  <2>1. CASE k \notin D
    <3>1. Older(k + 1) = Older(k)
      BY <1>1, <2>1
    <3> QED BY <1>8, <3>1
  <2>2. CASE k \in D
    <3>1. Older(k + 1) = Older(k) \cup {k} /\ k \notin Older(k)
      BY <1>1, <2>2
    <3>2. P(k + 1) = rem[k] + P(k)
      BY <1>a, <1>5, <2>2, <3>1 DEF Additive
    <3>3. Q(k + 1) = s[k] + Q(k)
      BY <1>b, <1>5, <2>2, <3>1 DEF Additive
    <3>4. Q(k) = IF qty <= P(k) THEN qty ELSE P(k)
      BY <1>8
    <3>5. P(k) \in Nat /\ rem[k] \in Nat
      BY <1>1, <1>2, <1>5, <1>n, <2>2
    <3>6. Wanted(L, qty, k) = qty - P(k)
      BY <1>6, <2>2
    <3>7. s[k] = IF qty - P(k) > 0 THEN IF rem[k] < qty - P(k) THEN rem[k] ELSE qty - P(k) ELSE 0
      BY <1>2, <1>3, <2>2, <3>6 DEF SellQty, W
    <3> HIDE DEF P, Q
    <3>8. Q(k + 1) = IF qty <= P(k + 1) THEN qty ELSE P(k + 1)
      BY <3>2, <3>3, <3>4, <3>5, <3>7
    <3> QED BY <3>8
  <2> QED BY <2>1, <2>2
<1>9. PICK n \in Nat : \A l \in D : l < n
  BY DEF LotTable
<1>10. n \in G
  <2> HIDE DEF G
  <2> QED BY <1>7, <1>8, NaturalInduction
<1>11. Older(n) = D
  BY <1>9
<1>12. SumFcn(s)[D] = qty
  <2>1. Q(n) = IF qty <= P(n) THEN qty ELSE P(n)
    BY <1>10
  <2>2. P(n) = Remaining(L, D)
    BY <1>4, <1>11
  <2>3. qty <= P(n)
    BY <2>2
  <2> QED BY <1>11, <2>1, <2>3
<1>13. Sum(s) = qty
  BY <1>1, <1>3, <1>12, SumIs
<1> DEFINE w == [l \in W |-> s[l]]
           h == [l \in W |-> Leg(L, qty, l)]
           X == ComputeFifoSell(L, qty)
           x == [g \in X |-> g.qty]
<1>14. w \in [W -> Int] /\ (\A l \in W : w[l] = s[l]) /\ \A l \in D \ W : s[l] = 0
  BY <1>1, <1>3
<1>15. Sum(w) = qty
  <2> HIDE DEF w
  <2> QED BY <1>1, <1>3, <1>13, <1>14, SumZeros
<1>16. /\ \A l \in W : h[l] \in X
       /\ \A g \in X : \E l \in W : h[l] = g
  BY DEF ComputeFifoSell, W
<1>17. \A l \in W : h[l].lot = l /\ h[l].qty = s[l]
  BY <1>1, <1>3 DEF Leg
<1>18. IsFiniteSet(W)
  BY <1>1, FS_Subset
<1>19. x \in [X -> Int] /\ \A l \in W : w[l] = x[h[l]]
  <2>1. \A g \in X : g.qty \in Int
    BY LegFacts DEF FifoLeg
  <2> HIDE DEF X
  <2> QED BY <1>16, <1>17, <2>1
<1>20. \A l \in W, k \in W : h[l] = h[k] => l = k
  BY <1>17
<1>21. h \in [W -> X]
  <2> HIDE DEF X
  <2> QED BY <1>16
<1> HIDE DEF w, h, x, X
<1>22. Sum(x) = Sum(w)
  BY ONLY <1>14, <1>16, <1>18, <1>19, <1>20, <1>21, SumImage, SMTT(30)
<1> QED BY <1>15, <1>22 DEF x, X

-----------------------------------------------------------------------------
(* What a sale has booked. *)

(* What rows say was sold is a natural. *)
LEMMA SoldType ==
  ASSUME NEW R, IsFiniteSet(R), \A r \in R : r.quantity \in Nat
  PROVE  Sold(R) \in Nat
<1> DEFINE f == [r \in R |-> r.quantity]
<1>1. f \in [R -> Nat]
  OBVIOUS
<1> HIDE DEF f
<1>2. Sum(f) \in Nat
  BY <1>1, SumNonNegative
<1> QED BY <1>2 DEF f, Sold

(* No rows, nothing sold. *)
LEMMA SoldNothing == Sold({}) = 0
<1> DEFINE E == {}
           f == [r \in E |-> r.quantity]
<1>1. f \in [{} -> Int]
  OBVIOUS
<1> HIDE DEF f
<1>2. Sum(f) = 0
  BY <1>1, SumEmpty
<1> QED BY <1>2 DEF f, Sold

(* A new row adds its quantity to what a sale has booked. *)
LEMMA SoldAdd ==
  ASSUME NEW R, IsFiniteSet(R), \A r \in R : r.quantity \in Nat, NEW x, x \notin R, x.quantity \in Nat
  PROVE  Sold(R \cup {x}) = Sold(R) + x.quantity
<1> DEFINE f == [r \in R |-> r.quantity]
           g == [r \in R \cup {x} |-> r.quantity]
<1>1. f \in [R -> Int] /\ g \in [R \cup {x} -> Int] /\ \A r \in R : f[r] = g[r]
  OBVIOUS
<1>v. g[x] = x.quantity
  OBVIOUS
<1>2. Sum(f) = Sold(R) /\ Sum(g) = Sold(R \cup {x})
  BY DEF Sold
<1> HIDE DEF f, g
<1>3. Sum(g) = g[x] + Sum(f)
  <2>1. IsFiniteSet(R) /\ x \notin R
    OBVIOUS
  <2> QED BY ONLY <1>1, <2>1, SumAdd
<1>4. Sum(f) \in Int
  BY <1>1, SumType
<1> QED BY <1>v, <1>2, <1>3, <1>4

ToSell(G) == Sum([g \in G |-> g.qty])

(* A leg booked is a leg less to sell. *)
LEMMA ToSellRemove ==
  ASSUME NEW G, IsFiniteSet(G), \A g \in G : g.qty \in Nat, NEW x \in G
  PROVE  ToSell(G) = x.qty + ToSell(G \ {x}) /\ ToSell(G \ {x}) \in Nat /\ ToSell(G) \in Nat
<1> DEFINE H == G \ {x}
           f == [g \in H |-> g.qty]
           k == [g \in H \cup {x} |-> g.qty]
<1>1. H \cup {x} = G /\ x \notin H
  OBVIOUS
<1>2. IsFiniteSet(H)
  BY FS_RemoveElement
<1>3. f \in [H -> Int] /\ k \in [H \cup {x} -> Int] /\ \A g \in H : f[g] = k[g]
  OBVIOUS
<1>v. k[x] = x.qty /\ f \in [H -> Nat]
  OBVIOUS
<1>4. Sum(f) = ToSell(H) /\ Sum(k) = ToSell(H \cup {x})
  BY DEF ToSell
<1> HIDE DEF f, k, H
<1>5. Sum(k) = k[x] + Sum(f)
  BY ONLY <1>1, <1>2, <1>3, SumAdd
<1>6. Sum(f) \in Nat
  BY <1>2, <1>v, SumNonNegative
<1>7. ToSell(G) = x.qty + ToSell(H) /\ ToSell(H) \in Nat
  BY <1>1, <1>v, <1>4, <1>5, <1>6
<1>8. ToSell(G) \in Nat
  BY <1>7
<1> QED BY <1>7, <1>8 DEF H

(* The part of SalesFill that is about one sale, and what holds between the *)
(* two statements of a leg.                                                 *)
FillOf(t) ==
  /\ pc[t] \in {"list", "writeAggregates", "ok"} => Sold(RowsOfTrade(t)) = order[t].qty
  /\ pc[t] = "record" => Sold(RowsOfTrade(t)) + ToSell(legs[t]) = order[t].qty
  /\ pc[t] = "update" => \A g \in legs[t] : IsNext(t, g) =>
       Sold(RowsOfTrade(t)) + ToSell(legs[t] \ {g}) = order[t].qty
  /\ pc[t] = "failed" => Sold(RowsOfTrade(t)) <= order[t].qty

FillInv == \A t \in Trades : order[t].type = "SELL" => FillOf(t)

(* A sale that has ended has no legs left: what it booked is all. *)
LEMMA FillMeans == BookInv /\ FillInv => SalesFill
<1> SUFFICES ASSUME BookInv, FillInv, NEW t \in Trades, order[t].type = "SELL"
             PROVE  /\ pc[t] \in {"list", "writeAggregates", "ok"} => Sold(RowsOfTrade(t)) = order[t].qty
                    /\ pc[t] = "record" => Sold(RowsOfTrade(t)) + Sum([g \in legs[t] |-> g.qty]) = order[t].qty
                    /\ pc[t] = "failed" => Sold(RowsOfTrade(t)) <= order[t].qty
                    /\ pc[t] = "refused" => RowsOfTrade(t) = {}
                    /\ \A r \in RowsOfTrade(t) : \A g \in legs[t] : r.lot <= g.lot
  BY DEF SalesFill
<1>1. FillOf(t)
  BY DEF FillInv
<1>2. pc[t] = "refused" => RowsOfTrade(t) = {}
  BY DEF BookInv, RowFacts, Booking, RowsOfTrade
<1>3. \A r \in RowsOfTrade(t) : \A g \in legs[t] : r.lot <= g.lot
  BY DEF BookInv, RowsOrdered, RowsOfTrade
<1> QED BY <1>1, <1>2, <1>3 DEF FillOf, ToSell

(* A step on one sale leaves the rows of the others. *)
LEMMA RowSets ==
  ASSUME BookInv, NEW R \in SUBSET pnls
  PROVE  IsFiniteSet(R) /\ (\A r \in R : r.quantity \in Nat) /\ Sold(R) \in Nat
<1>1. IsFiniteSet(R)
  BY FS_Subset DEF BookInv, RowFacts
<1>2. \A r \in R : r.quantity \in Nat
  BY DEF BookInv, TypeInv, TypeOK, StoreTypeOK, RealizedPnL
<1> QED BY <1>1, <1>2, SoldType

(* And their legs. *)
LEMMA LegSets ==
  ASSUME BookInv, NEW t \in Trades
  PROVE  IsFiniteSet(legs[t]) /\ \A g \in legs[t] : g.qty \in Nat /\ g.lot \in Nat
BY DEF BookInv, MatchInv, TypeInv, TypeOK, FifoLeg

(* The step of an aside on a sale. *)
LEMMA AsideSale ==
  ASSUME IInv, TypeInv, NEW t \in Trades, Book(t), Aside(t), order[t].type = "SELL"
  PROVE  \/ pc'[t] = "refused"
         \/ pc[t] \in {"list", "writeAggregates"} /\ pc'[t] \in {"writeAggregates", "ok"}
<1>1. pc'[t] \notin {"record", "update"} /\ pc[t] \notin {"record", "update"}
  BY AsideOK
<1>2. ~UpsertForBuy(t) /\ ~CreateLot(t)
  BY DEF UpsertForBuy, CreateLot, TypeInv
<1>3. ~MatchLots(t) /\ ~RecordPnL(t) /\ ~UpdateLot(t)
  BY <1>1 DEF MatchLots, RecordPnL, UpdateLot, Start, Goto, IInv, Shape
<1>4. CASE RefuseSale(t)
  BY <1>4 DEF RefuseSale, Goto, IInv, Shape
<1>5. CASE ListLots(t) \/ WriteAggregates(t)
  BY <1>5 DEF ListLots, WriteAggregates, Goto, IInv, Shape
<1> QED BY <1>2, <1>3, <1>4, <1>5 DEF Book

(* Booked and still to sell add up to the quantity, step by step. *)
LEMMA FillInvBook ==
  ASSUME IInv, BookInv, FillInv, NEW t \in Trades, Book(t), order' = order
  PROVE  FillInv'
<1> SUFFICES ASSUME NEW u \in Trades, order[u].type = "SELL"
             PROVE  FillOf(u)'
  BY DEF FillInv
<1>0. FillOf(u)
  BY DEF FillInv
<1>s. ASSUME RowsOfTrade(u)' = RowsOfTrade(u), legs'[u] = legs[u], pc'[u] = pc[u]
      PROVE  FillOf(u)'
  BY <1>0, <1>s DEF FillOf, IsNext
<1>1. CASE Aside(t)
  <2>1. pnls' = pnls /\ legs' = legs
    BY <1>1, AsideOK
  <2>2. RowsOfTrade(u)' = RowsOfTrade(u)
    BY <2>1 DEF RowsOfTrade
  <2>3. CASE u # t
    BY <1>1, <1>s, <2>1, <2>2, <2>3, AsideOK
  <2>4. CASE u = t
    <3>1. \/ pc'[t] = "refused"
          \/ pc[t] \in {"list", "writeAggregates"} /\ pc'[t] \in {"writeAggregates", "ok"}
      BY <1>1, <2>4, AsideSale DEF BookInv
    <3> QED BY <1>0, <2>2, <2>4, <3>1 DEF FillOf
  <2> QED BY <2>3, <2>4
<1>2. CASE MatchLots(t)
  <2>1. pnls' = pnls /\ order[t].qty \in Nat /\ pc[t] = "new" /\ pc'[t] = "record"
    BY <1>2, MatchOK DEF BookInv
  <2>2. RowsOfTrade(u)' = RowsOfTrade(u)
    BY <2>1 DEF RowsOfTrade
  <2>3. CASE u # t
    BY <1>2, <1>s, <2>1, <2>2, <2>3, MatchOK DEF BookInv
  <2>4. CASE u = t
    <3> DEFINE L == ListActiveLots(Position(t))
    <3>1. LotTable(L) /\ legs'[t] = ComputeFifoSell(L, order[t].qty) /\ order[t].qty <= Remaining(L, DOMAIN L)
      BY <1>2, MatchOK, ActiveLots DEF BookInv
    <3> HIDE DEF L
    <3>2. ToSell(legs'[t]) = order[t].qty
      BY <2>1, <3>1, MatchFills DEF ToSell
    <3>3. RowsOfTrade(t) = {}
      BY <2>1 DEF BookInv, RowFacts, Booking, RowsOfTrade
    <3>4. Sold(RowsOfTrade(t)) + ToSell(legs'[t]) = order[t].qty
      BY <2>1, <3>2, <3>3, SoldNothing
    <3> QED BY <2>1, <2>2, <2>4, <3>4 DEF FillOf, ToSell
  <2> QED BY <2>3, <2>4
<1>3. CASE RecordPnL(t)
  <2>1. legs' = legs /\ (\A v \in Trades \ {t} : pc'[v] = pc[v]) /\ pc[t] = "record" /\ pc'[t] = "update"
    BY <1>3, RecordOK DEF BookInv
  <2>2. PICK g \in legs[t] : IsNext(t, g) /\ pnls' = pnls \cup {Row(t, g, at[t])}
    BY <1>3, RecordOK DEF BookInv
  <2> DEFINE R == Row(t, g, at[t])
  <2>3. R.trade = t /\ R.lot = g.lot /\ R.quantity = g.qty
    BY RowIsRow DEF BookInv, TypeInv, TypeOK
  <2> HIDE DEF R
  <2>4. pnls' = pnls \cup {R}
    BY <2>2 DEF R
  <2>5. CASE u # t
    <3>1. RowsOfTrade(u)' = RowsOfTrade(u)
      BY <2>3, <2>4, <2>5 DEF RowsOfTrade
    <3> QED BY <1>s, <2>1, <2>5, <3>1
  <2>6. CASE u = t
    <3>1. RowsOfTrade(t)' = RowsOfTrade(t) \cup {R}
      BY <2>3, <2>4 DEF RowsOfTrade
    <3>2. R \notin RowsOfTrade(t)
      <4>1. \A r \in RowsOfTrade(t) : r.lot < g.lot /\ r.lot \in Nat
        BY <2>1 DEF BookInv, RowsOrdered, RowsOfTrade, TypeInv, TypeOK, StoreTypeOK, RealizedPnL
      <4> QED BY <2>3, <4>1
    <3>3. /\ IsFiniteSet(RowsOfTrade(t)) /\ Sold(RowsOfTrade(t)) \in Nat
          /\ \A r \in RowsOfTrade(t) : r.quantity \in Nat
      BY RowSets DEF RowsOfTrade
    <3>4. g.qty \in Nat
      BY LegSets
    <3>5. Sold(RowsOfTrade(t) \cup {R}) = Sold(RowsOfTrade(t)) + g.qty
      BY <2>3, <3>2, <3>3, <3>4, SoldAdd
    <3>6. ToSell(legs[t]) = g.qty + ToSell(legs[t] \ {g}) /\ ToSell(legs[t] \ {g}) \in Nat
      BY LegSets, ToSellRemove
    <3>7. Sold(RowsOfTrade(t)) + ToSell(legs[t]) = order[t].qty
      BY <1>0, <2>1, <2>6 DEF FillOf
    <3>8. Sold(RowsOfTrade(t)') + ToSell(legs[t] \ {g}) = order[t].qty
      BY <3>1, <3>3, <3>4, <3>5, <3>6, <3>7
    <3>9. \A h \in legs[t] : IsNext(t, h) => h = g
      <4>1. \A h \in legs[t] : g.lot <= h.lot /\ g.lot \in Nat /\ h.lot \in Nat
        BY <2>2, LegSets DEF IsNext
      <4>2. \A h \in legs[t] : g.lot = h.lot => g = h
        BY DEF BookInv, MatchInv
      <4> QED BY <4>1, <4>2 DEF IsNext
    <3>10. \A h \in legs'[t] : IsNext(t, h)' => Sold(RowsOfTrade(t)') + ToSell(legs'[t] \ {h}) = order[t].qty
      <4>1. \A h : IsNext(t, h)' <=> IsNext(t, h)
        BY <2>1 DEF IsNext
      <4> QED BY <2>1, <3>8, <3>9, <4>1
    <3> QED BY <2>1, <2>6, <3>10 DEF FillOf, Sold, ToSell
  <2> QED BY <2>5, <2>6
<1>4. CASE UpdateLot(t)
  <2>1. pnls' = pnls /\ pc[t] = "update" /\ (\A v \in Trades \ {t} : pc'[v] = pc[v] /\ legs'[v] = legs[v])
    BY <1>4, UpdateOK DEF BookInv
  <2>2. RowsOfTrade(u)' = RowsOfTrade(u)
    BY <2>1 DEF RowsOfTrade
  <2>3. CASE u # t
    BY <1>s, <2>1, <2>2, <2>3
  <2>4. CASE u = t
    <3>1. PICK g \in legs[t] : /\ IsNext(t, g) /\ legs'[t] = legs[t] \ {g}
                               /\ pc'[t] = IF legs[t] = {g} THEN "list" ELSE "record"
      <4>1. IInv /\ TypeInv
        BY DEF BookInv
      <4> QED BY ONLY <1>4, <4>1, UpdateOK, t \in Trades
    <3>2. Sold(RowsOfTrade(t)) + ToSell(legs'[t]) = order[t].qty
      BY <1>0, <2>1, <2>4, <3>1 DEF FillOf
    <3>3. CASE legs[t] = {g}
      <4>1. legs'[t] = {}
        BY <3>1, <3>3
      <4>2. ToSell({}) = 0
        <5> DEFINE E == {}
                   f == [h \in E |-> h.qty]
        <5>1. f \in [{} -> Int]
          OBVIOUS
        <5> HIDE DEF f
        <5>2. Sum(f) = 0
          BY <5>1, SumEmpty
        <5> QED BY <5>2 DEF f, ToSell
      <4>3. Sold(RowsOfTrade(t)) \in Nat
        BY RowSets DEF RowsOfTrade
      <4>4. Sold(RowsOfTrade(t)) = order[t].qty
        BY <3>2, <4>1, <4>2, <4>3
      <4> QED BY <2>2, <2>4, <3>1, <3>3, <4>4 DEF FillOf
    <3>4. CASE legs[t] # {g}
      BY <2>2, <2>4, <3>1, <3>2, <3>4 DEF FillOf, ToSell
    <3> QED BY <3>3, <3>4
  <2> QED BY <2>3, <2>4
<1> QED BY <1>1, <1>2, <1>3, <1>4, Steps

(* A sale that fails promises nothing. *)
LEMMA FillInvStop ==
  ASSUME IInv, BookInv, FillInv, NEW S \in SUBSET Trades, Stop(S), order' = order, \A t \in S : pc[t] \in Running
  PROVE  FillInv'
<1> SUFFICES ASSUME NEW u \in Trades, order[u].type = "SELL"
             PROVE  FillOf(u)'
  BY DEF FillInv
<1>0. FillOf(u)
  BY DEF FillInv
<1>1. RowsOfTrade(u)' = RowsOfTrade(u)
  BY StopOK DEF RowsOfTrade, BookInv
<1>2. CASE u \notin S
  <2>1. legs'[u] = legs[u] /\ pc'[u] = pc[u]
    BY <1>2, StopOK DEF BookInv
  <2> QED BY <1>0, <1>1, <2>1 DEF FillOf, IsNext
<1>3. CASE u \in S
  <2>1. pc'[u] = "failed"
    BY <1>3, StopOK DEF BookInv
  <2>2. pc[u] \in {"record", "update", "list", "writeAggregates"}
    BY <1>3 DEF Running, BookInv, TypeInv
  <2>3. Sold(RowsOfTrade(u)) \in Nat /\ order[u].qty \in Nat
    BY RowSets, OrderFields DEF RowsOfTrade, BookInv, TypeInv, TypeOK, StoreTypeOK
  <2>4. Sold(RowsOfTrade(u)) <= order[u].qty
    <3>1. CASE pc[u] = "record"
      <4>1. PICK g \in legs[u] : TRUE
        BY <3>1 DEF BookInv, MatchInv
      <4>2. ToSell(legs[u]) \in Nat
        BY <4>1, LegSets, ToSellRemove
      <4> QED BY <1>0, <2>3, <3>1, <4>2 DEF FillOf
    <3>2. CASE pc[u] = "update"
      <4>1. PICK r \in pnls, g \in legs[u] : r.trade = u /\ r.lot = g.lot
        BY <3>2 DEF BookInv, RowsOrdered
      <4>2. IsNext(u, g)
        BY <4>1 DEF BookInv, RowsOrdered, IsNext
      <4>3. ToSell(legs[u] \ {g}) \in Nat
        BY LegSets, ToSellRemove
      <4> QED BY <1>0, <2>3, <3>2, <4>2, <4>3 DEF FillOf
    <3>3. CASE pc[u] \in {"list", "writeAggregates"}
      BY <1>0, <2>3, <3>3 DEF FillOf
    <3> QED BY <2>2, <3>1, <3>2, <3>3
  <2> QED BY <1>1, <2>1, <2>4 DEF FillOf
<1> QED BY <1>2, <1>3

(* So a sale that ends well is filled. *)
LEMMA FillInvKept ==
  ASSUME IInv, BookInv, FillInv, [Next]_vars
  PROVE  FillInv'
<1>1. CASE UNCHANGED vars
  BY <1>1 DEF FillInv, FillOf, RowsOfTrade, IsNext, vars, tables
<1> QED BY <1>1, FillInvBook, FillInvStop DEF Next, Fail, Crash

-----------------------------------------------------------------------------
(* What the lots have lost. *)

(* The rows of a lot, but for one whose lot is written next. *)
CountedOn(l) ==
  {r \in pnls : r.lot = l /\ ~(pc[r.trade] = "update" /\ \E g \in legs[r.trade] : g.lot = l)}

(* As long as no two sales took a lot of the position, each leg has its lot *)
(* to itself, and found in it what it takes and what it leaves.             *)
LegsApart ==
  \A t \in Trades : "lots" \notin off[Position(t)] => \A g \in legs[t] :
    /\ lots[g.lot].remaining = g.left + g.qty
    /\ \A u \in Trades : \A h \in legs[u] : g.lot = h.lot => t = u

Conserve == LotsConserved /\ LegsApart

(* Conservation, said with the rows that count. *)
LEMMA LotsConservedIs ==
  LotsConserved <=> \A l \in DOMAIN lots : "lots" \notin off[lots[l].position] =>
                      lots[l].original = lots[l].remaining + Sold(CountedOn(l))
BY DEF LotsConserved, CountedOn

(* No lots, nothing to conserve. *)
LEMMA ConserveInit == Init => Conserve
BY LotsConservedIs DEF Init, Conserve, LegsApart

(* A step that neither matches nor books counts the same rows, writes lots  *)
(* only to add one, and does not touch the mark.                            *)
LEMMA AsideLots ==
  ASSUME IInv, TypeInv, NEW t \in Trades, Book(t), Aside(t), order' = order
  PROVE  /\ \A p \in Positions : "lots" \in off'[p] <=> "lots" \in off[p]
         /\ \A l \in DOMAIN lots : l \in DOMAIN lots' /\ lots'[l] = lots[l]
         /\ \A l \in DOMAIN lots' : l \notin DOMAIN lots => lots'[l].original = lots'[l].remaining
<1>1. CASE CreateLot(t)
  <2>1. off' = off /\ DOMAIN lots' = DOMAIN lots \cup {at[t]} /\ \A l \in DOMAIN lots : lots'[l] = lots[l]
    BY <1>1 DEF CreateLot, CreateFifoLot
  <2>2. at[t] \notin DOMAIN lots => lots'[at[t]].original = lots'[at[t]].remaining
    BY <1>1 DEF CreateLot, CreateFifoLot
  <2> QED BY <2>1, <2>2
<1>2. CASE WriteAggregates(t)
  BY <1>2, OrderTyped DEF WriteAggregates, IInv, Shape
<1>3. CASE UpsertForBuy(t) \/ RefuseSale(t) \/ ListLots(t)
  BY <1>3 DEF UpsertForBuy, RefuseSale, ListLots, tables
<1>4. ~MatchLots(t) /\ ~RecordPnL(t) /\ ~UpdateLot(t)
  BY AsideOK DEF MatchLots, RecordPnL, UpdateLot, Start, Goto, IInv, Shape
<1> QED BY <1>1, <1>2, <1>3, <1>4 DEF Book

(* A lot is of one of the positions. *)
LEMMA LotOwner ==
  ASSUME TypeInv, NEW l \in DOMAIN lots
  PROVE  lots[l].position \in Positions
BY LotFields DEF FifoLot

(* A buy makes a lot nothing was sold of. *)
LEMMA ConserveAside ==
  ASSUME IInv, BookInv, Conserve, NEW t \in Trades, Book(t), Aside(t), order' = order
  PROVE  Conserve'
<1>a. /\ \A p \in Positions : "lots" \in off'[p] <=> "lots" \in off[p]
      /\ \A l \in DOMAIN lots : l \in DOMAIN lots' /\ lots'[l] = lots[l]
      /\ \A l \in DOMAIN lots' : l \notin DOMAIN lots => lots'[l].original = lots'[l].remaining
  BY AsideLots DEF BookInv
<1>b. /\ pnls' = pnls /\ legs' = legs /\ \A u \in Trades : pc'[u] = "update" <=> pc[u] = "update"
  BY AsideOK
<1>c. \A r \in pnls : r.trade \in Trades /\ r.lot \in DOMAIN lots
  BY DEF BookInv, RowFacts, IsRow, TypeInv, TypeOK, StoreTypeOK, RealizedPnL
<1>t. TypeInv'
  BY TypeInvKept DEF BookInv, Next
<1>1. LegsApart'
  <2>1. \A u \in Trades : \A g \in legs[u] : g.lot \in DOMAIN lots
    BY DEF IInv, LegsOwn
  <2>2. \A u \in Trades : Position(u) \in Positions /\ Position(u)' = Position(u)
    BY OrderTyped DEF IInv, Position
  <2> QED BY <1>a, <1>b, <2>1, <2>2 DEF Conserve, LegsApart
<1>2. \A l \in DOMAIN lots' : "lots" \notin off'[lots'[l].position] =>
        lots'[l].original = lots'[l].remaining + Sold(CountedOn(l)')
  <2> SUFFICES ASSUME NEW l \in DOMAIN lots', "lots" \notin off'[lots'[l].position]
               PROVE  lots'[l].original = lots'[l].remaining + Sold(CountedOn(l)')
    OBVIOUS
  <2>1. CountedOn(l)' = CountedOn(l)
    BY <1>b, <1>c DEF CountedOn
  <2>2. CASE l \in DOMAIN lots
    <3>1. lots'[l] = lots[l] /\ lots[l].position \in Positions
      BY <1>a, <2>2, LotOwner DEF BookInv
    <3>2. "lots" \notin off[lots[l].position]
      BY <1>a, <3>1
    <3> QED BY <2>1, <2>2, <3>1, <3>2, LotsConservedIs DEF Conserve
  <2>3. CASE l \notin DOMAIN lots
    <3>1. CountedOn(l) = {}
      BY <1>c, <2>3 DEF CountedOn
    <3>2. lots'[l].original = lots'[l].remaining
      BY <1>a, <2>3
    <3>3. lots'[l].remaining \in Nat
      BY <1>t DEF TypeInv, TypeOK, StoreTypeOK, FifoLot
    <3> QED BY <2>1, <3>1, <3>2, <3>3, SoldNothing
  <2> QED BY <2>2, <2>3
<1>3. LotsConserved'
  BY <1>2 DEF LotsConserved, CountedOn, Sold
<1> QED BY <1>1, <1>3 DEF Conserve

(* Matching reads lots nobody else has legs on, or marks the position. *)
LEMMA ConserveMatch ==
  ASSUME IInv, BookInv, Conserve, NEW t \in Trades, MatchLots(t), order' = order
  PROVE  Conserve'
<1> DEFINE L == ListActiveLots(Position(t))
<1>a. /\ lots' = lots /\ pnls' = pnls /\ (\A u \in Trades \ {t} : pc'[u] = pc[u] /\ legs'[u] = legs[u])
      /\ pc[t] = "new" /\ legs'[t] = ComputeFifoSell(L, order[t].qty) /\ order[t].qty \in Nat
      /\ off' = [off EXCEPT ![Position(t)] = @ \cup Missed(t, L)]
  BY MatchOK DEF BookInv
<1>b. LotTable(L) /\ \A l \in DOMAIN L : l \in DOMAIN lots /\ L[l] = lots[l] /\ lots[l].position = Position(t)
  <2>t. TypeInv
    BY DEF BookInv
  <2>1. LotTable(L) /\ \A l \in DOMAIN L : l \in DOMAIN lots /\ L[l] = lots[l]
    BY ONLY <2>t, ActiveLots
  <2>2. \A l \in DOMAIN L : lots[l].position = Position(t)
    <3>1. DOMAIN L = {l \in DOMAIN lots : lots[l].position = Position(t) /\ lots[l].remaining > 0}
      BY ONLY <2>t, ActiveLots
    <3> QED BY ONLY <3>1
  <2> QED BY <2>1, <2>2
<1>c. \A p \in Positions : off[p] \subseteq off'[p]
  BY <1>a DEF IInv, Shape
<1>d. "lots" \notin off'[Position(t)] => \A u \in Trades, g \in FifoLeg :
        g \in legs[u] /\ u # t /\ Position(u) = Position(t) => g.lot \notin DOMAIN L
  <2>1. "lots" \notin off'[Position(t)] => "lots" \notin Missed(t, L)
    BY <1>a, OrderTyped DEF IInv, Shape
  <2> HIDE DEF L
  <2> QED BY <2>1 DEF Missed, Others
<1>e. \A u \in Trades : Position(u) \in Positions /\ Position(u)' = Position(u)
  BY OrderTyped DEF IInv, Position
<1>f. \A u \in Trades : \A g \in legs[u] : lots[g.lot].position = Position(u) /\ g \in FifoLeg
  BY DEF IInv, LegsOwn, BookInv, TypeInv, TypeOK
<1> HIDE DEF L
<1>g. \A g \in legs'[t] : g.lot \in DOMAIN L /\ lots[g.lot].remaining = g.left + g.qty
  BY <1>a, <1>b, LegFacts
<1>1. LegsApart'
  <2> SUFFICES ASSUME NEW u \in Trades, "lots" \notin off'[Position(u)], NEW g \in legs'[u]
               PROVE  /\ lots[g.lot].remaining = g.left + g.qty
                      /\ \A v \in Trades : \A h \in legs'[v] : g.lot = h.lot => u = v
    BY <1>a, <1>e DEF LegsApart
  <2>1. CASE u = t
    <3>1. g.lot \in DOMAIN L /\ lots[g.lot].remaining = g.left + g.qty
      BY <1>g, <2>1
    <3>2. ASSUME NEW v \in Trades, NEW h \in legs'[v], g.lot = h.lot, v # t
          PROVE  FALSE
      <4>1. h \in legs[v] /\ h \in FifoLeg /\ lots[h.lot].position = Position(v)
        BY <1>a, <1>f, <3>2
      <4>2. Position(v) = Position(t)
        BY <1>b, <3>1, <3>2, <4>1
      <4> QED BY <1>d, <2>1, <3>1, <3>2, <4>1, <4>2
    <3> QED BY <2>1, <3>1, <3>2
  <2>2. CASE u # t
    <3>1. g \in legs[u] /\ "lots" \notin off[Position(u)] /\ g \in FifoLeg
      BY <1>a, <1>c, <1>e, <1>f, <2>2
    <3>2. /\ lots[g.lot].remaining = g.left + g.qty
          /\ \A v \in Trades : \A h \in legs[v] : g.lot = h.lot => u = v
      BY <3>1 DEF Conserve, LegsApart
    <3>3. ASSUME NEW h \in legs'[t]
          PROVE  g.lot # h.lot
      <4>1. h.lot \in DOMAIN L
        BY <1>g
      <4>2. Position(u) # Position(t) => g.lot # h.lot
        BY <1>b, <1>f, <3>1, <4>1
      <4>3. Position(u) = Position(t) => g.lot \notin DOMAIN L
        BY <1>d, <2>2, <3>1
      <4> QED BY <4>1, <4>2, <4>3
    <3> QED BY <1>a, <3>2, <3>3
  <2> QED BY <2>1, <2>2
<1>2. \A l \in DOMAIN lots : CountedOn(l)' = CountedOn(l)
  <2>1. \A r \in pnls : r.trade \in Trades /\ pc[r.trade] # "new"
    BY DEF BookInv, RowFacts, Booking, TypeInv, TypeOK, StoreTypeOK, RealizedPnL
  <2>2. \A r \in pnls : pc'[r.trade] = pc[r.trade] /\ legs'[r.trade] = legs[r.trade]
    BY <1>a, <2>1
  <2> QED BY <1>a, <2>2 DEF CountedOn
<1>3. LotsConserved'
  <2> SUFFICES ASSUME NEW l \in DOMAIN lots, "lots" \notin off'[lots[l].position]
               PROVE  lots[l].original = lots[l].remaining + Sold(CountedOn(l)')
    BY <1>a DEF LotsConserved, CountedOn, Sold
  <2>1. "lots" \notin off[lots[l].position]
    BY <1>c, LotOwner DEF BookInv
  <2> QED BY <1>2, <2>1, LotsConservedIs DEF Conserve
<1> QED BY <1>1, <1>3 DEF Conserve

(* The row of a leg counts once its lot is written. *)
LEMMA ConserveRecord ==
  ASSUME IInv, BookInv, Conserve, NEW t \in Trades, RecordPnL(t), order' = order
  PROVE  Conserve'
<1>1. /\ lots' = lots /\ legs' = legs /\ off' = off /\ (\A u \in Trades \ {t} : pc'[u] = pc[u])
      /\ pc[t] = "record" /\ pc'[t] = "update"
  BY RecordOK DEF BookInv
<1>2. PICK g \in legs[t] : pnls' = pnls \cup {Row(t, g, at[t])}
  BY RecordOK DEF BookInv
<1> DEFINE R == Row(t, g, at[t])
<1>3. R.trade = t /\ R.lot = g.lot
  BY RowIsRow DEF BookInv, TypeInv, TypeOK
<1> HIDE DEF R
<1>4. pnls' = pnls \cup {R}
  BY <1>2 DEF R
<1>5. LegsApart'
  BY <1>1 DEF Conserve, LegsApart, Position
<1>6. \A r \in pnls : r.trade \in Trades /\ r.lot \in Nat
  BY DEF BookInv, TypeInv, TypeOK, StoreTypeOK, RealizedPnL
<1>7. \A r \in pnls, h \in legs[t] : r.trade = t => r.lot # h.lot
  <2>1. \A r \in pnls, h \in legs[t] : r.trade = t => r.lot < h.lot /\ h.lot \in Nat
    BY <1>1, LegSets DEF BookInv, RowsOrdered
  <2> QED BY <1>6, <2>1
<1>8. \A l : CountedOn(l)' = CountedOn(l)
  <2> SUFFICES ASSUME NEW l PROVE CountedOn(l)' = CountedOn(l)
    OBVIOUS
  <2> DEFINE Pending(r) == pc[r.trade] = "update" /\ \E h \in legs[r.trade] : h.lot = l
             Next1(r) == pc'[r.trade] = "update" /\ \E h \in legs[r.trade] : h.lot = l
  <2>1. CountedOn(l) = {r \in pnls : r.lot = l /\ ~Pending(r)}
    BY DEF CountedOn
  <2>2. CountedOn(l)' = {r \in pnls \cup {R} : r.lot = l /\ ~Next1(r)}
    BY <1>1, <1>4 DEF CountedOn
  <2>3. R.lot = l => Next1(R)
    BY <1>1, <1>3
  <2>4. ASSUME NEW r \in pnls, r.lot = l
        PROVE  Next1(r) <=> Pending(r)
    <3>1. CASE r.trade = t
      BY <1>1, <1>7, <2>4, <3>1
    <3>2. CASE r.trade # t
      BY <1>1, <1>6, <2>4, <3>2
    <3> QED BY <3>1, <3>2
  <2> HIDE DEF Pending, Next1
  <2> QED BY <2>1, <2>2, <2>3, <2>4
<1>9. LotsConserved'
  <2> SUFFICES ASSUME NEW l \in DOMAIN lots, "lots" \notin off[lots[l].position]
               PROVE  lots[l].original = lots[l].remaining + Sold(CountedOn(l)')
    BY <1>1 DEF LotsConserved, CountedOn, Sold
  <2> QED BY <1>8, LotsConservedIs DEF Conserve
<1> QED BY <1>5, <1>9 DEF Conserve

(* The write takes from the lot what the row says. *)
LEMMA ConserveUpdate ==
  ASSUME IInv, BookInv, Conserve, NEW t \in Trades, UpdateLot(t), order' = order
  PROVE  Conserve'
<1>1. pnls' = pnls /\ off' = off /\ pc[t] = "update" /\ (\A u \in Trades \ {t} : pc'[u] = pc[u] /\ legs'[u] = legs[u])
  BY UpdateOK DEF BookInv
<1>2. PICK g \in legs[t] : /\ IsNext(t, g) /\ legs'[t] = legs[t] \ {g}
                           /\ DOMAIN lots' = DOMAIN lots /\ g.lot \in DOMAIN lots
                           /\ lots'[g.lot] = [lots[g.lot] EXCEPT !.remaining = g.left]
                           /\ \A l \in DOMAIN lots : l # g.lot => lots'[l] = lots[l]
                           /\ pc'[t] \in {"list", "record"}
  BY UpdateOK DEF BookInv
<1>3. lots[g.lot].position = Position(t) /\ g \in FifoLeg
  BY DEF IInv, LegsOwn, BookInv, TypeInv, TypeOK
<1>4. /\ lots'[g.lot].position = lots[g.lot].position /\ lots'[g.lot].original = lots[g.lot].original
      /\ lots'[g.lot].remaining = g.left /\ lots[g.lot].original \in Nat
  <2>1. lots[g.lot] \in FifoLot
    BY <1>2, LotFields DEF BookInv
  <2> QED BY <1>2, <2>1 DEF FifoLot
<1>5. LegsApart'
  <2> SUFFICES ASSUME NEW u \in Trades, "lots" \notin off[Position(u)], NEW h \in legs'[u]
               PROVE  /\ lots'[h.lot].remaining = h.left + h.qty
                      /\ \A v \in Trades : \A k \in legs'[v] : h.lot = k.lot => u = v
    BY <1>1 DEF LegsApart, Position
  <2>1. \A v \in Trades : legs'[v] \subseteq legs[v]
    BY <1>1, <1>2
  <2>2. h \in legs[u] /\ h.lot \in DOMAIN lots
    BY <2>1 DEF IInv, LegsOwn
  <2>3. /\ lots[h.lot].remaining = h.left + h.qty
        /\ \A v \in Trades : \A k \in legs[v] : h.lot = k.lot => u = v
    BY <2>2 DEF Conserve, LegsApart
  <2>4. h.lot # g.lot
    <3>1. CASE u = t
      BY <1>2, <2>2, <3>1 DEF BookInv, MatchInv
    <3>2. CASE u # t
      BY <2>3, <3>2
    <3> QED BY <3>1, <3>2
  <2> QED BY <1>2, <2>1, <2>2, <2>3, <2>4
<1>6. \A r \in pnls : r.trade \in Trades /\ r.lot \in Nat /\ r.quantity \in Nat
  BY DEF BookInv, TypeInv, TypeOK, StoreTypeOK, RealizedPnL
<1>7. PICK R \in pnls : R.trade = t /\ R.lot = g.lot /\ R.quantity = g.qty
  <2>1. PICK R \in pnls, h \in legs[t] : R.trade = t /\ R.lot = h.lot
    BY <1>1 DEF BookInv, RowsOrdered
  <2>2. R.lot <= g.lot /\ g.lot <= h.lot /\ R.lot \in Nat /\ g.lot \in Nat
    BY <1>2, <1>6, <2>1, LegSets DEF BookInv, RowsOrdered, IsNext
  <2>3. R.lot = g.lot
    BY <2>1, <2>2
  <2> QED BY <2>1, <2>3 DEF BookInv, RowsOrdered
<1>8. \A r \in pnls, h \in legs[t] : r.trade = t /\ r.lot = h.lot => r = R /\ h = g
  <2> SUFFICES ASSUME NEW r \in pnls, NEW h \in legs[t], r.trade = t, r.lot = h.lot
               PROVE  r = R /\ h = g
    OBVIOUS
  <2>1. r.lot <= g.lot /\ g.lot <= h.lot /\ r.lot \in Nat /\ g.lot \in Nat
    BY <1>2, <1>6, LegSets DEF BookInv, RowsOrdered, IsNext
  <2>2. h.lot = g.lot /\ r.lot = R.lot
    BY <1>7, <2>1
  <2> QED BY <1>7, <2>2 DEF BookInv, RowsOrdered, MatchInv
<1>9. ASSUME NEW l
      PROVE  CountedOn(l)' = IF l = g.lot THEN CountedOn(l) \cup {R} ELSE CountedOn(l)
  <2> DEFINE Pending(r) == pc[r.trade] = "update" /\ \E h \in legs[r.trade] : h.lot = l
             Next1(r) == pc'[r.trade] = "update" /\ \E h \in legs'[r.trade] : h.lot = l
  <2>1. CountedOn(l) = {r \in pnls : r.lot = l /\ ~Pending(r)}
    BY DEF CountedOn
  <2>2. CountedOn(l)' = {r \in pnls : r.lot = l /\ ~Next1(r)}
    BY <1>1 DEF CountedOn
  <2>3. R.lot = l => ~Next1(R)
    BY <1>2, <1>7
  <2>4. ASSUME NEW r \in pnls, r.lot = l, r # R
        PROVE  Next1(r) <=> Pending(r)
    <3>1. CASE r.trade = t
      BY <1>2, <1>8, <2>4, <3>1
    <3>2. CASE r.trade # t
      BY <1>1, <1>6, <2>4, <3>2
    <3> QED BY <3>1, <3>2
  <2> HIDE DEF Pending, Next1
  <2> QED BY <1>7, <2>1, <2>2, <2>3, <2>4
<1>10. R \notin CountedOn(g.lot)
  BY <1>1, <1>7 DEF CountedOn
<1>11. LotsConserved'
  <2> SUFFICES ASSUME NEW l \in DOMAIN lots', "lots" \notin off[lots'[l].position]
               PROVE  lots'[l].original = lots'[l].remaining + Sold(CountedOn(l)')
    BY <1>1 DEF LotsConserved, CountedOn, Sold
  <2>1. lots'[l].position = lots[l].position /\ l \in DOMAIN lots
    BY <1>2, <1>4
  <2>2. lots[l].original = lots[l].remaining + Sold(CountedOn(l))
    BY <2>1, LotsConservedIs DEF Conserve
  <2>3. CASE l # g.lot
    BY <1>2, <1>9, <2>1, <2>2, <2>3
  <2>4. CASE l = g.lot
    <3>1. IsFiniteSet(CountedOn(l)) /\ (\A r \in CountedOn(l) : r.quantity \in Nat) /\ Sold(CountedOn(l)) \in Nat
      BY RowSets DEF CountedOn
    <3>2. Sold(CountedOn(l) \cup {R}) = Sold(CountedOn(l)) + g.qty
      BY <1>6, <1>7, <1>10, <2>4, <3>1, SoldAdd
    <3>3. lots[g.lot].remaining = g.left + g.qty
      BY <1>3, <2>1, <2>4 DEF Conserve, LegsApart
    <3>4. g.left \in Nat /\ g.qty \in Nat
      BY <1>3 DEF FifoLeg
    <3>5. CountedOn(l)' = CountedOn(l) \cup {R}
      BY <1>9, <2>4
    <3> QED BY <1>4, <2>2, <2>4, <3>1, <3>2, <3>3, <3>4, <3>5
  <2> QED BY <2>3, <2>4
<1> QED BY <1>5, <1>11 DEF Conserve

(* A trade that stops half way marks the position. *)
LEMMA ConserveStop ==
  ASSUME IInv, BookInv, Conserve, NEW S \in SUBSET Trades, Stop(S), order' = order
  PROVE  Conserve'
<1>1. /\ UNCHANGED <<lots, pnls>>
      /\ \A u \in Trades : u \notin S => pc'[u] = pc[u] /\ legs'[u] = legs[u]
      /\ \A u \in S : pc'[u] = "failed" /\ legs'[u] = {}
      /\ \A p \in Positions : /\ off[p] \subseteq off'[p]
                              /\ \A u \in S : Position(u) = p => Harm(u) \subseteq off'[p]
  BY StopOK DEF BookInv
<1>2. \A u \in Trades : Position(u) \in Positions /\ Position(u)' = Position(u)
  BY OrderTyped DEF IInv, Position
<1>3. \A u \in Trades : legs'[u] \subseteq legs[u]
  BY <1>1
<1>4. LegsApart'
  <2> SUFFICES ASSUME NEW u \in Trades, "lots" \notin off'[Position(u)], NEW h \in legs'[u]
               PROVE  /\ lots[h.lot].remaining = h.left + h.qty
                      /\ \A v \in Trades : \A k \in legs'[v] : h.lot = k.lot => u = v
    BY <1>1, <1>2 DEF LegsApart
  <2>1. "lots" \notin off[Position(u)] /\ h \in legs[u]
    BY <1>1, <1>2, <1>3
  <2> QED BY <1>3, <2>1 DEF Conserve, LegsApart
<1>5. ASSUME NEW l \in DOMAIN lots, "lots" \notin off'[lots[l].position]
      PROVE  CountedOn(l)' = CountedOn(l)
  <2> DEFINE Pending(r) == pc[r.trade] = "update" /\ \E h \in legs[r.trade] : h.lot = l
             Next1(r) == pc'[r.trade] = "update" /\ \E h \in legs'[r.trade] : h.lot = l
  <2>1. CountedOn(l) = {r \in pnls : r.lot = l /\ ~Pending(r)}
    BY DEF CountedOn
  <2>2. CountedOn(l)' = {r \in pnls : r.lot = l /\ ~Next1(r)}
    BY <1>1 DEF CountedOn
  <2>3. ASSUME NEW r \in pnls, r.lot = l
        PROVE  Next1(r) <=> Pending(r)
    <3>1. r.trade \in Trades /\ lots[l].position = Position(r.trade)
      BY <2>3 DEF BookInv, RowFacts, IsRow, TypeInv, TypeOK, StoreTypeOK, RealizedPnL
    <3>2. CASE r.trade \in S
      <4>1. pc[r.trade] # "update"
        BY <1>1, <1>2, <1>5, <3>1, <3>2 DEF Harm
      <4> QED BY <1>1, <3>2, <4>1
    <3>3. CASE r.trade \notin S
      BY <1>1, <3>1, <3>3
    <3> QED BY <3>2, <3>3
  <2> HIDE DEF Pending, Next1
  <2> QED BY <2>1, <2>2, <2>3
<1>6. LotsConserved'
  <2> SUFFICES ASSUME NEW l \in DOMAIN lots, "lots" \notin off'[lots[l].position]
               PROVE  lots[l].original = lots[l].remaining + Sold(CountedOn(l)')
    BY <1>1 DEF LotsConserved, CountedOn, Sold
  <2>1. "lots" \notin off[lots[l].position]
    BY <1>1, LotOwner DEF BookInv
  <2> QED BY <1>5, <2>1, LotsConservedIs DEF Conserve
<1> QED BY <1>4, <1>6 DEF Conserve

(* So no step loses or doubles a share. *)
LEMMA ConserveKept ==
  ASSUME IInv, BookInv, Conserve, [Next]_vars
  PROVE  Conserve'
<1>1. CASE UNCHANGED vars
  BY <1>1 DEF Conserve, LotsConserved, LegsApart, Position, Sold, vars, tables
<1>2. ASSUME NEW t \in Trades, Book(t), order' = order
      PROVE  Conserve'
  BY <1>2, Steps, ConserveAside, ConserveMatch, ConserveRecord, ConserveUpdate
<1> QED BY <1>1, <1>2, ConserveStop DEF Next, Fail, Crash

-----------------------------------------------------------------------------
(* What is on the record. *)

FailuresShow == \A t \in Trades : pc[t] = "failed" => "part" \in off[Position(t)]

Known == {p \in Positions : Exists(p)}
Asked == {t \in Trades : pc[t] # "new"}

TradedExist ==
  /\ \A t \in Trades : pc[t] \notin {"new", "refused"} => Exists(Position(t))
  /\ IsFiniteSet(Known) /\ IsFiniteSet(Asked)

(* A sale that was taken up asks for something. *)
SalesAsk ==
  \A t \in Trades : order[t].type = "SELL" /\ pc[t] \notin {"new", "refused"} => order[t].qty > 0

RecordInv == FailuresShow /\ TradedExist /\ SalesAsk

(* Nothing is on the record. *)
LEMMA RecordInvInit == Init => RecordInv
<1> SUFFICES ASSUME Init PROVE RecordInv
  OBVIOUS
<1>1. Known = {} /\ Asked = {}
  BY DEF Init, Known, Asked, Exists
<1> QED BY <1>1, FS_EmptySet DEF Init, RecordInv, FailuresShow, TradedExist, SalesAsk

(* A step keeps what is on the record. *)
LEMMA RecordInvBook ==
  ASSUME IInv, TypeInv, RecordInv, NEW t \in Trades, Book(t), order' = order
  PROVE  RecordInv'
<1>t. /\ positions \in [Positions -> Aggregates \cup {NoPosition}] /\ seen \in [Trades -> Aggregates]
      /\ pc \in [Trades -> PC] /\ off \in [Positions -> SUBSET Troubles]
  BY DEF TypeInv, TypeOK, StoreTypeOK
<1>p. \A u \in Trades : Position(u) \in Positions /\ Position(u)' = Position(u)
  BY OrderTyped DEF IInv, Position
<1>a. \A a \in Aggregates : a # NoPosition
  BY DEF Aggregates, NoPosition
<1>1. /\ \A p \in Positions \ {Position(t)} : positions'[p] = positions[p]
      /\ Exists(Position(t)) => positions'[Position(t)] # NoPosition
      /\ UpsertForBuy(t) => positions'[Position(t)] # NoPosition
  <2>1. CASE UpsertForBuy(t)
    <3>1. positions' = UpsertPosition(Position(t), order[t].qty, order[t].price)
      BY <2>1 DEF UpsertForBuy
    <3>2. CASE Exists(Position(t))
      BY <3>1, <3>2 DEF UpsertPosition, Exists
    <3>3. CASE ~Exists(Position(t))
      <4> DEFINE a == [quantity |-> order[t].qty, cost |-> order[t].price * order[t].qty]
      <4>1. order[t].qty \in Nat
        BY OrderFields DEF TypeInv, TypeOK, StoreTypeOK
      <4>2. a # NoPosition
        <5>1. a.quantity = order[t].qty /\ NoPosition.quantity = -1
          BY DEF NoPosition
        <5> HIDE DEF a
        <5> QED BY <4>1, <5>1
      <4>3. positions' = [positions EXCEPT ![Position(t)] = a]
        BY <3>1, <3>3 DEF UpsertPosition
      <4> HIDE DEF a
      <4> QED BY <1>t, <1>p, <4>2, <4>3
    <3> QED BY <3>2, <3>3
  <2>2. CASE WriteAggregates(t)
    <3>1. positions' = [positions EXCEPT ![Position(t)] = seen[t]] /\ ~UpsertForBuy(t)
      BY <2>2 DEF WriteAggregates, UpdatePositionAggregates, UpsertForBuy, Start
    <3> QED BY <1>t, <1>p, <1>a, <3>1
  <2>3. CASE ~UpsertForBuy(t) /\ ~WriteAggregates(t)
    <3>1. positions' = positions
      BY <2>3 DEF Book, CreateLot, RefuseSale, MatchLots, RecordPnL, UpdateLot, ListLots, tables
    <3> QED BY <2>3, <3>1 DEF Exists
  <2> QED BY <2>1, <2>2, <2>3
<1>2. /\ \A u \in Trades \ {t} : pc'[u] = pc[u]
      /\ pc'[t] # "failed"
      /\ \A p \in Positions : "part" \in off[p] => "part" \in off'[p]
  <2>1. CASE UpsertForBuy(t) \/ CreateLot(t) \/ RefuseSale(t) \/ RecordPnL(t) \/ ListLots(t)
    BY <1>t, <2>1 DEF UpsertForBuy, CreateLot, RefuseSale, RecordPnL, ListLots, Start, Goto, tables
  <2>2. CASE MatchLots(t)
    BY <1>t, <1>p, <2>2 DEF MatchLots, Start, Goto, Mark
  <2>3. CASE UpdateLot(t)
    <3>1. off' = off /\ (\A u \in Trades \ {t} : pc'[u] = pc[u]) /\ pc'[t] \in {"list", "record"}
      BY <2>3, UpdateOK
    <3> QED BY <3>1
  <2>4. CASE WriteAggregates(t)
    BY <1>t, <1>p, <2>4 DEF WriteAggregates, Goto
  <2> QED BY <2>1, <2>2, <2>3, <2>4 DEF Book
<1>3. FailuresShow'
  BY <1>2, <1>p DEF RecordInv, FailuresShow
<1>4. \A p \in Positions : Exists(p) => Exists(p)'
  BY <1>1 DEF Exists
<1>5. pc'[t] \notin {"new", "refused"} => Exists(Position(t))'
  <2>1. CASE pc[t] \notin {"new", "refused"}
    BY <1>4, <1>p, <2>1 DEF RecordInv, TradedExist, Exists
  <2>2. CASE UpsertForBuy(t)
    BY <1>1, <1>p, <2>2 DEF Exists
  <2>3. CASE MatchLots(t)
    BY <1>4, <1>p, <2>3 DEF MatchLots, Exists
  <2>4. CASE pc[t] \in {"new", "refused"} /\ ~UpsertForBuy(t) /\ ~MatchLots(t)
    <3>1. RefuseSale(t)
      BY <2>4 DEF Book, CreateLot, RecordPnL, UpdateLot, ListLots, WriteAggregates
    <3> QED BY <1>t, <3>1 DEF RefuseSale, Goto
  <2> QED BY <2>1, <2>2, <2>3, <2>4
<1>6. \A u \in Trades : pc'[u] \notin {"new", "refused"} => Exists(Position(u))'
  <2> SUFFICES ASSUME NEW u \in Trades, pc'[u] \notin {"new", "refused"} PROVE Exists(Position(u))'
    OBVIOUS
  <2>1. CASE u = t
    BY <1>5, <2>1
  <2>2. CASE u # t
    <3>1. Exists(Position(u)) /\ Position(u) \in Positions
      BY <1>2, <1>p, <2>2 DEF RecordInv, TradedExist
    <3> QED BY <1>4, <1>p, <3>1 DEF Exists
  <2> QED BY <2>1, <2>2
<1>7. IsFiniteSet(Known')
  <2>1. Known' \subseteq Known \cup {Position(t)}
    BY <1>1 DEF Known, Exists
  <2>2. IsFiniteSet(Known \cup {Position(t)})
    BY FS_AddElement DEF RecordInv, TradedExist
  <2> QED BY <2>1, <2>2, FS_Subset
<1>8. IsFiniteSet(Asked')
  <2>1. Asked' \subseteq Asked \cup {t}
    BY <1>2 DEF Asked
  <2>2. IsFiniteSet(Asked \cup {t})
    BY FS_AddElement DEF RecordInv, TradedExist
  <2> QED BY <2>1, <2>2, FS_Subset
<1>9. SalesAsk'
  <2>1. ASSUME order[t].type = "SELL", pc[t] \in {"new", "refused"}, pc'[t] \notin {"new", "refused"}
        PROVE  order[t].qty > 0
    <3>1. ~UpsertForBuy(t)
      BY <2>1 DEF UpsertForBuy
    <3>2. CASE MatchLots(t)
      BY <3>2, MatchOK
    <3>3. CASE ~MatchLots(t)
      <4>1. RefuseSale(t)
        BY <2>1, <3>1, <3>3 DEF Book, CreateLot, RecordPnL, UpdateLot, ListLots, WriteAggregates
      <4> QED BY <1>t, <2>1, <4>1 DEF RefuseSale, Goto
    <3> QED BY <3>2, <3>3
  <2> QED BY <1>2, <2>1 DEF RecordInv, SalesAsk
<1> QED BY <1>3, <1>6, <1>7, <1>8, <1>9 DEF RecordInv, TradedExist

(* Nor does a failure or a crash take anything off it. *)
LEMMA RecordInvStop ==
  ASSUME IInv, TypeInv, RecordInv, NEW S \in SUBSET Trades, Stop(S), order' = order, \A t \in S : pc[t] \in Running
  PROVE  RecordInv'
<1>1. /\ UNCHANGED <<positions>>
      /\ \A u \in Trades : u \notin S => pc'[u] = pc[u]
      /\ \A u \in S : pc'[u] = "failed"
      /\ \A p \in Positions : /\ off[p] \subseteq off'[p]
                              /\ \A u \in S : Position(u) = p => Harm(u) \subseteq off'[p]
  BY StopOK
<1>p. \A u \in Trades : Position(u) \in Positions /\ Position(u)' = Position(u)
  BY OrderTyped DEF IInv, Position
<1>2. FailuresShow'
  BY <1>1, <1>p DEF RecordInv, FailuresShow, Harm
<1>3. \A u \in Trades : pc'[u] \notin {"new", "refused"} => pc[u] \notin {"new", "refused"}
  BY <1>1 DEF Running
<1>4. Known' = Known /\ \A p : Exists(p)' = Exists(p)
  BY <1>1 DEF Known, Exists
<1>5. Asked' = Asked
  BY <1>1 DEF Asked, Running
<1>6. \A u \in Trades : pc'[u] \notin {"new", "refused"} => Exists(Position(u))'
  BY <1>1, <1>3, <1>p DEF RecordInv, TradedExist, Exists
<1>7. SalesAsk'
  BY <1>1, <1>3 DEF RecordInv, SalesAsk
<1> QED BY <1>2, <1>4, <1>5, <1>6, <1>7 DEF RecordInv, TradedExist

(* What is on the record stays there. *)
LEMMA RecordInvKept ==
  ASSUME IInv, TypeInv, RecordInv, [Next]_vars
  PROVE  RecordInv'
<1>1. CASE UNCHANGED vars
  BY <1>1 DEF RecordInv, FailuresShow, TradedExist, SalesAsk, Known, Asked, Exists, Position, vars, tables
<1> QED BY <1>1, RecordInvBook, RecordInvStop DEF Next, Fail, Crash

-----------------------------------------------------------------------------
(* Dates. *)

(* No two trades take the same time, a lot that is not written yet has a    *)
(* date of its own, and a row has the date of its sale.                     *)
DatesApart ==
  /\ \A t \in Trades : at[t] <= clock /\ (pc[t] \notin {"new", "refused"} => at[t] # 0)
  /\ \A t, u \in Trades : at[t] = at[u] /\ at[t] # 0 => t = u
  /\ \A t \in Trades : pc[t] = "createLot" => at[t] \notin DOMAIN lots
  /\ \A r \in pnls : r.at = at[r.trade]

(* Nobody has taken an instant. *)
LEMMA DatesApartInit == Init => DatesApart
BY DEF Init, DatesApart

(* No two trades take the same instant. *)
LEMMA DatesApartBook ==
  ASSUME IInv, TypeInv, RowFacts, DatesApart, NEW t \in Trades, Book(t), order' = order
  PROVE  DatesApart'
<1>t. /\ clock \in Nat /\ pc \in [Trades -> PC] /\ at \in [Trades -> Nat] /\ DOMAIN lots \subseteq 1..clock
      /\ \A r \in pnls : r.trade \in Trades /\ pc[r.trade] # "new"
  BY DEF TypeInv, TypeOK, StoreTypeOK, RealizedPnL, RowFacts, Booking
<1>d. /\ \A u \in Trades : at[u] <= clock /\ at[u] \in Nat /\ (pc[u] \notin {"new", "refused"} => at[u] # 0)
      /\ \A u, v \in Trades : at[u] = at[v] /\ at[u] # 0 => u = v
      /\ \A u \in Trades : pc[u] = "createLot" => at[u] \notin DOMAIN lots
      /\ \A r \in pnls : r.at = at[r.trade]
  BY <1>t DEF DatesApart
<1>1. CASE UpsertForBuy(t) \/ MatchLots(t)
  <2>1. /\ clock' = clock + 1 /\ at' = [at EXCEPT ![t] = clock + 1] /\ lots' = lots /\ pnls' = pnls
        /\ pc[t] = "new" /\ \A u \in Trades \ {t} : pc'[u] = pc[u]
    BY <1>t, <1>1 DEF UpsertForBuy, MatchLots, Start, Goto
  <2>2. at'[t] = clock + 1 /\ \A u \in Trades \ {t} : at'[u] = at[u]
    BY <1>t, <2>1
  <2>3. \A u \in Trades : at'[u] <= clock' /\ (pc'[u] \notin {"new", "refused"} => at'[u] # 0)
    BY <1>t, <1>d, <2>1, <2>2
  <2>4. \A u, v \in Trades : at'[u] = at'[v] /\ at'[u] # 0 => u = v
    BY <1>t, <1>d, <2>2
  <2>5. clock + 1 \notin DOMAIN lots
    BY <1>t
  <2>6. \A u \in Trades : pc'[u] = "createLot" => at'[u] \notin DOMAIN lots'
    BY <1>d, <2>1, <2>2, <2>5
  <2>7. \A r \in pnls' : r.at = at'[r.trade]
    BY <1>t, <1>d, <2>1, <2>2
  <2> QED BY <2>3, <2>4, <2>6, <2>7 DEF DatesApart
<1>2. CASE CreateLot(t)
  <2>1. /\ clock' = clock /\ at' = at /\ DOMAIN lots' = DOMAIN lots \cup {at[t]} /\ pc[t] = "createLot"
        /\ pc'[t] = "list" /\ (\A u \in Trades \ {t} : pc'[u] = pc[u]) /\ pnls' = pnls
    BY <1>t, <1>2 DEF CreateLot, CreateFifoLot, Goto
  <2>2. \A u \in Trades : pc'[u] = "createLot" => at[u] \notin DOMAIN lots /\ at[u] # at[t]
    BY <1>d, <2>1
  <2>3. \A u \in Trades : pc'[u] \notin {"new", "refused"} => at[u] # 0
    BY <1>d, <2>1
  <2> QED BY <1>d, <2>1, <2>2, <2>3 DEF DatesApart
<1>3. CASE UpdateLot(t)
  <2>1. /\ DOMAIN lots' = DOMAIN lots /\ clock' = clock /\ at' = at /\ pnls' = pnls
        /\ \A u \in Trades : pc'[u] = "createLot" => pc[u] = "createLot"
        /\ \A u \in Trades : pc'[u] \notin {"new", "refused"} => pc[u] \notin {"new", "refused"}
    <3>1. clock' = clock /\ at' = at
      BY <1>3 DEF UpdateLot
    <3> QED BY <1>3, <3>1, UpdateOK
  <2> QED BY <1>d, <2>1 DEF DatesApart
<1>4. CASE RefuseSale(t) \/ RecordPnL(t) \/ ListLots(t) \/ WriteAggregates(t)
  <2>1. /\ lots' = lots /\ clock' = clock /\ at' = at
        /\ \A u \in Trades : pc'[u] = "createLot" => pc[u] = "createLot"
        /\ \A u \in Trades : pc'[u] \notin {"new", "refused"} => pc[u] \notin {"new", "refused"}
    BY <1>t, <1>4 DEF RefuseSale, RecordPnL, ListLots, WriteAggregates, Goto, tables
  <2>2. \A r \in pnls' : r.at = at[r.trade]
    <3>1. CASE RecordPnL(t)
      <4>1. PICK g \in legs[t] : pnls' = pnls \cup {Row(t, g, at[t])}
        BY <3>1 DEF RecordPnL
      <4>2. Row(t, g, at[t]).trade = t /\ Row(t, g, at[t]).at = at[t]
        BY DEF Row
      <4> QED BY <1>d, <4>1, <4>2
    <3>2. CASE ~RecordPnL(t)
      <4>1. pnls' = pnls
        BY <1>4, <3>2 DEF RefuseSale, ListLots, WriteAggregates, tables
      <4> QED BY <1>d, <4>1
    <3> QED BY <3>1, <3>2
  <2> QED BY <1>d, <2>1, <2>2 DEF DatesApart
<1> QED BY <1>1, <1>2, <1>3, <1>4 DEF Book

(* So a date names a trade. *)
LEMMA DatesApartKept ==
  ASSUME IInv, TypeInv, RowFacts, DatesApart, [Next]_vars
  PROVE  DatesApart'
<1>1. CASE UNCHANGED vars
  BY <1>1 DEF DatesApart, vars, tables
<1>2. ASSUME NEW S \in SUBSET Trades, Stop(S), \A t \in S : pc[t] \in Running
      PROVE  DatesApart'
  <2>1. /\ UNCHANGED <<clock, lots, pnls, at>>
        /\ \A u \in Trades : u \notin S => pc'[u] = pc[u]
        /\ \A u \in S : pc'[u] = "failed" /\ pc[u] \in Running
    BY <1>2, StopOK
  <2>2. \A u \in Trades : pc'[u] \notin {"new", "refused"} => pc[u] \notin {"new", "refused"}
    BY <2>1 DEF Running
  <2>3. \A u \in Trades : pc'[u] = "createLot" => pc[u] = "createLot"
    BY <2>1
  <2> QED BY <2>1, <2>2, <2>3 DEF DatesApart
<1> QED BY <1>1, <1>2, DatesApartBook DEF Next, Fail, Crash

Books == IInv /\ BookInv /\ FillInv /\ Conserve /\ RecordInv /\ DatesApart

(* The inductive invariant of the bookings. *)
LEMMA AlwaysBooks == Spec => []Books
<1>1. Init => Books
  <2>1. Init => FillInv
    BY DEF Init, FillInv, FillOf
  <2> QED BY <2>1, InitOK, BookInvInit, ConserveInit, RecordInvInit, DatesApartInit DEF Books
<1>2. Books /\ [Next]_vars => Books'
  <2>1. IInv /\ [Next]_vars => IInv'
    BY ShapeKept, LegsOwnKept, ReadIsFreshKept, FollowKept DEF IInv
  <2> QED BY <2>1, BookInvKept, FillInvKept, ConserveKept, RecordInvKept, DatesApartKept DEF Books, BookInv
<1> QED BY <1>1, <1>2, PTL DEF Spec

(* The variables have their types: no remaining quantity, aggregate or date *)
(* is ever below zero, and a leg leaves no more than the lot had            *)
(* (fifo_engine.go).                                                        *)
THEOREM TypeCorrect == Spec => []TypeOK
<1>1. Books => TypeOK
  BY DEF Books, BookInv, TypeInv
<1> QED BY <1>1, AlwaysBooks, PTL

(* Every share bought is left in its lot or in one row, unless two sales    *)
(* matched the lot at once or one failed between row and lot                *)
(* (portfolio_service.go:105-117).                                          *)
THEOREM LotsAreConserved == Spec => []LotsConserved
<1>1. Books => LotsConserved
  BY DEF Books, Conserve
<1> QED BY <1>1, AlwaysBooks, PTL

(* A sale books what it was asked to sell, for any lots, sales and failures *)
(* (fifo_engine.go:67-122, portfolio_service.go:95-117).                    *)
THEOREM SalesAreFilled == Spec => []SalesFill
<1>1. Books => SalesFill
  BY FillMeans DEF Books
<1> QED BY <1>1, AlwaysBooks, PTL

-----------------------------------------------------------------------------
(* What a row says. *)

RawTax(r) == CalculateTax(MarketOf[Position(r.trade)], order[r.trade].price, r.quantity, r.gross)

(* The columns of a row. *)
LEMMA RowIs ==
  ASSUME TypeInv, NEW r \in pnls, IsRow(r)
  PROVE  /\ r.trade \in Trades /\ r.quantity \in Nat /\ r.quantity > 0 /\ r.gross \in Int /\ r.fee \in Int
         /\ r.tax \in Int /\ r.net \in Int /\ r.at \in Nat /\ r.lot \in DOMAIN lots
         /\ Position(r.trade) \in Positions /\ lots[r.lot].position = Position(r.trade)
         /\ order[r.trade].price \in Nat /\ order[r.trade].qty \in Nat /\ order[r.trade].qty > 0
         /\ order[r.trade].fee \in Nat
         /\ r.gross = (order[r.trade].price - lots[r.lot].price) * r.quantity
         /\ RawTax(r) \in Int
         /\ r.tax = Round(RawTax(r), 10000)
         /\ LET parts == lots[r.lot].original * order[r.trade].qty
                fee == (lots[r.lot].fee * order[r.trade].qty + order[r.trade].fee * lots[r.lot].original) * r.quantity
            IN  /\ r.fee = Round(fee, parts)
                /\ r.net = Round((r.gross * 10000 - RawTax(r)) * parts - 10000 * fee, 10000 * parts)
<1>1. r \in RealizedPnL /\ order \in Scenarios
  BY DEF TypeInv, TypeOK, StoreTypeOK
<1>2. /\ r.trade \in Trades /\ r.quantity \in Nat /\ r.gross \in Int /\ r.fee \in Int
      /\ r.tax \in Int /\ r.net \in Int /\ r.at \in Nat
  BY <1>1 DEF RealizedPnL
<1>3. Position(r.trade) \in Positions /\ order[r.trade].price \in Nat /\ order[r.trade].qty \in Nat
      /\ order[r.trade].fee \in Nat
  BY <1>1, <1>2, Orders, OrderFields
<1>4. MarketOf[Position(r.trade)] \in {"KR", "US"}
  BY <1>3, PortfolioStoreAssumption
<1>5. RawTax(r) \in Int
  BY <1>2, <1>3, <1>4, TaxType DEF RawTax
<1> DEFINE leg == [lot |-> r.lot, qty |-> r.quantity, left |-> 0]
           gross == (order[r.trade].price - lots[r.lot].price) * r.quantity
           tax == CalculateTax(MarketOf[Position(r.trade)], order[r.trade].price, r.quantity, gross)
           parts == lots[r.lot].original * order[r.trade].qty
           fee == (lots[r.lot].fee * order[r.trade].qty + order[r.trade].fee * lots[r.lot].original) * r.quantity
<1>6. r = [trade |-> r.trade, lot |-> r.lot, quantity |-> r.quantity, gross |-> gross, at |-> r.at,
           fee |-> Round(fee, parts), tax |-> Round(tax, 10000),
           net |-> Round((gross * 10000 - tax) * parts - 10000 * fee, 10000 * parts)]
  <2>1. r = Row(r.trade, leg, r.at)
    BY DEF IsRow
  <2> QED BY <2>1 DEF Row, Position
<1>7. r.gross = gross /\ r.fee = Round(fee, parts) /\ r.tax = Round(tax, 10000)
      /\ r.net = Round((gross * 10000 - tax) * parts - 10000 * fee, 10000 * parts)
  <2> DEFINE a == Round(fee, parts)
             b == Round(tax, 10000)
             c == Round((gross * 10000 - tax) * parts - 10000 * fee, 10000 * parts)
  <2>1. r = [trade |-> r.trade, lot |-> r.lot, quantity |-> r.quantity, gross |-> gross, at |-> r.at,
           fee |-> a, tax |-> b, net |-> c]
    BY <1>6
  <2> HIDE DEF a, b, c, gross
  <2>2. r.gross = gross /\ r.fee = a /\ r.tax = b /\ r.net = c
    BY <2>1
  <2> QED BY <2>2 DEF a, b, c
<1>8. tax = RawTax(r)
  BY <1>7 DEF RawTax
<1> HIDE DEF tax
<1> QED BY <1>2, <1>3, <1>5, <1>7, <1>8 DEF IsRow

(* There are finitely many rows, each what its sale and lot make it. *)
LEMMA RowsAre ==
  ASSUME BookInv, NEW R \in SUBSET pnls
  PROVE  IsFiniteSet(R) /\ Cardinality(R) \in Nat /\ \A r \in R : IsRow(r)
BY FS_Subset, FS_CardinalityType DEF BookInv, RowFacts

(* A row of a Korean position bears the transaction tax, rounded. *)
LEMMA KoreanTax ==
  ASSUME BookInv, NEW u \in Users
  PROVE  Size(10000 * SumRealizedPnLByMarket(u, "KR").tax - SimulateTax(u).kr)
           <= 5000 * Cardinality(RowsOfMarket(u, "KR"))
<1> DEFINE R == RowsOfMarket(u, "KR")
           tax == [r \in R |-> r.tax]
           amount == [r \in R |-> order[r.trade].price * r.quantity]
<1>0. R \in SUBSET pnls /\ TypeInv
  BY DEF RowsOfMarket, RowsOfUser, BookInv
<1>1. IsFiniteSet(R) /\ Cardinality(R) \in Nat /\ \A r \in R : IsRow(r)
  BY <1>0, RowsAre
<1>2. SumRealizedPnLByMarket(u, "KR").tax = Sum(tax) /\ SimulateTax(u).kr = Sum(amount) * 18
  BY DEF SumRealizedPnLByMarket, SimulateTax, KRTransactionTaxRate
<1>3. \A r \in R : /\ r.tax \in Int /\ order[r.trade].price * r.quantity \in Int
                   /\ 10000 * r.tax <= 18 * (order[r.trade].price * r.quantity) + 5000
                   /\ 18 * (order[r.trade].price * r.quantity) <= 10000 * r.tax + 5000
  <2> SUFFICES ASSUME NEW r \in R
               PROVE  /\ r.tax \in Int /\ order[r.trade].price * r.quantity \in Int
                      /\ 10000 * r.tax <= 18 * (order[r.trade].price * r.quantity) + 5000
                      /\ 18 * (order[r.trade].price * r.quantity) <= 10000 * r.tax + 5000
    OBVIOUS
  <2>1. r \in pnls /\ IsRow(r) /\ MarketOf[Position(r.trade)] = "KR"
    BY <1>0, <1>1 DEF RowsOfMarket, Position
  <2>2. /\ r.tax \in Int /\ order[r.trade].price \in Nat /\ r.quantity \in Nat
        /\ RawTax(r) \in Int /\ r.tax = Round(RawTax(r), 10000)
    BY <1>0, <2>1, RowIs
  <2>3. RawTax(r) = order[r.trade].price * r.quantity * 18
    BY <2>1 DEF RawTax, CalculateTax, KRTransactionTaxRate
  <2>4. order[r.trade].price * r.quantity \in Int
    BY <2>2
  <2>5. /\ -10000 <= 2 * (10000 * r.tax) - 2 * RawTax(r)
        /\ 2 * (10000 * r.tax) - 2 * RawTax(r) <= 10000
    BY <2>2, RoundNear
  <2> DEFINE pq == order[r.trade].price * r.quantity
  <2>6. pq \in Int /\ RawTax(r) = pq * 18
    BY <2>3, <2>4
  <2> HIDE DEF pq
  <2>7. 10000 * r.tax <= 18 * pq + 5000 /\ 18 * pq <= 10000 * r.tax + 5000
    BY <2>2, <2>5, <2>6
  <2> QED BY <2>2, <2>4, <2>7 DEF pq
<1>4. tax \in [R -> Int] /\ amount \in [R -> Int]
  BY <1>3
<1>5. \A r \in R : 10000 * tax[r] <= 18 * amount[r] + 5000 /\ 18 * amount[r] <= 10000 * tax[r] + 5000
  BY <1>3
<1> DEFINE a == 10000
           b == 18
           c == 5000
<1>n. a \in Int /\ b \in Int /\ c \in Int
  OBVIOUS
<1>m. \A r \in R : a * tax[r] <= b * amount[r] + c /\ b * amount[r] <= a * tax[r] + c
  BY <1>5
<1> HIDE DEF R, tax, amount, a, b, c
<1>6. a * Sum(tax) <= b * Sum(amount) + c * Cardinality(R)
  BY ONLY <1>1, <1>4, <1>n, <1>m, SumBound
<1>7. b * Sum(amount) <= a * Sum(tax) + c * Cardinality(R)
  BY ONLY <1>1, <1>4, <1>n, <1>m, SumBound
<1>8. Sum(tax) \in Int /\ Sum(amount) \in Int
  BY <1>1, <1>4, SumType
<1>9. Size(10000 * Sum(tax) - Sum(amount) * 18) <= 5000 * Cardinality(R)
  BY <1>1, <1>6, <1>7, <1>8 DEF Size, a, b, c
<1> QED BY <1>2, <1>9 DEF R

(* Rows of American positions bear the tax on their gains, rounded each. *)
LEMMA AmericanTax ==
  ASSUME BookInv, NEW u \in Users
  PROVE  SimulateTax(u).us
           <= 10000 * SumRealizedPnLByMarket(u, "US").tax + 5000 * Cardinality(RowsOfMarket(u, "US"))
<1> DEFINE R == RowsOfMarket(u, "US")
           tax == [r \in R |-> r.tax]
           gross == [r \in R |-> r.gross]
           zero == [r \in R |-> 0]
<1>0. R \in SUBSET pnls /\ TypeInv
  BY DEF RowsOfMarket, RowsOfUser, BookInv
<1>1. IsFiniteSet(R) /\ Cardinality(R) \in Nat /\ \A r \in R : IsRow(r)
  BY <1>0, RowsAre
<1>2. SumRealizedPnLByMarket(u, "US").tax = Sum(tax) /\ SimulateTax(u).us = CalculateAnnualUSTax(Sum(gross))
  BY DEF SumRealizedPnLByMarket, SimulateTax
<1>3. \A r \in R : /\ r.tax \in Int /\ r.gross \in Int
                   /\ 2200 * r.gross <= 10000 * r.tax + 5000 /\ 0 <= 10000 * r.tax + 5000
  <2> SUFFICES ASSUME NEW r \in R
               PROVE  /\ r.tax \in Int /\ r.gross \in Int
                      /\ 2200 * r.gross <= 10000 * r.tax + 5000 /\ 0 <= 10000 * r.tax + 5000
    OBVIOUS
  <2>1. r \in pnls /\ IsRow(r) /\ MarketOf[Position(r.trade)] = "US"
    BY <1>0, <1>1 DEF RowsOfMarket, Position
  <2>2. r.tax \in Int /\ r.gross \in Int /\ RawTax(r) \in Int /\ r.tax = Round(RawTax(r), 10000)
    BY <1>0, <2>1, RowIs
  <2>3. RawTax(r) = IF r.gross <= 0 THEN 0 ELSE r.gross * 2200
    BY <2>1 DEF RawTax, CalculateTax, USCapitalGainsTaxRate
  <2>4. 2200 * r.gross <= RawTax(r) /\ 0 <= RawTax(r)
    BY <2>2, <2>3
  <2>5. -10000 <= 2 * (10000 * r.tax) - 2 * RawTax(r)
    BY <2>2, RoundNear
  <2> QED BY <2>2, <2>4, <2>5
<1>4. tax \in [R -> Int] /\ gross \in [R -> Int] /\ zero \in [R -> Int]
  BY <1>3
<1>5. \A r \in R : 2200 * gross[r] <= 10000 * tax[r] + 5000 /\ 0 * zero[r] <= 10000 * tax[r] + 5000
  BY <1>3
<1> DEFINE a == 2200
           b == 10000
           c == 5000
<1>n. a \in Int /\ b \in Int /\ c \in Int
  OBVIOUS
<1>m. \A r \in R : a * gross[r] <= b * tax[r] + c /\ a * zero[r] <= b * tax[r] + c
  BY <1>5
<1> HIDE DEF R, tax, gross, zero, a, b, c
<1>6. a * Sum(gross) <= b * Sum(tax) + c * Cardinality(R)
  BY ONLY <1>1, <1>4, <1>n, <1>m, SumBound
<1>z. Sum(zero) = 0
  <2>1. Sum(zero) = 0 * Cardinality(R)
    BY <1>1, <1>4, SumConstant DEF zero
  <2> QED BY <1>1, <2>1
<1>7. a * Sum(zero) <= b * Sum(tax) + c * Cardinality(R)
  BY ONLY <1>1, <1>4, <1>n, <1>m, SumBound
<1>8. Sum(tax) \in Int /\ Sum(gross) \in Int /\ Sum(zero) \in Int
  BY <1>1, <1>4, SumType
<1>9. CalculateAnnualUSTax(Sum(gross)) <= 10000 * Sum(tax) + 5000 * Cardinality(R)
  <2>1. USBasicDeduction \in Nat
    BY PortfolioReportsAssumption
  <2>2. 0 <= 10000 * Sum(tax) + 5000 * Cardinality(R)
    BY <1>1, <1>7, <1>8, <1>z DEF a, b, c
  <2>3. CASE Sum(gross) - USBasicDeduction <= 0
    BY <2>2, <2>3 DEF CalculateAnnualUSTax
  <2>4. CASE ~(Sum(gross) - USBasicDeduction <= 0)
    <3>1. CalculateAnnualUSTax(Sum(gross)) = (Sum(gross) - USBasicDeduction) * 2200
      BY <2>4 DEF CalculateAnnualUSTax, USCapitalGainsTaxRate
    <3> QED BY <1>1, <1>6, <1>8, <2>1, <3>1 DEF a, b, c
  <2> QED BY <2>3, <2>4
<1> QED BY <1>2, <1>9 DEF R

(* The tax of the year is that of the rows but for their rounding, for any  *)
(* number of rows (tax_calculator.go:46-47).                                *)
THEOREM TaxesAreAgreed == Spec => []TaxesAgree
<1>1. BookInv => TaxesAgree
  BY KoreanTax, AmericanTax DEF TaxesAgree
<1>2. Books => TaxesAgree
  BY <1>1 DEF Books
<1> QED BY <1>2, AlwaysBooks, PTL

(* A row from the exact fee F/P and tax T/10000: each column is rounded by  *)
(* itself.                                                                  *)
RoundedOff(P, G, T, F, fee, tax, net) ==
  /\ P \in Nat /\ P > 0 /\ G \in Int /\ T \in Int /\ F \in Int
  /\ fee \in Int /\ tax \in Int /\ net \in Int
  /\ fee = Round(F, P) /\ tax = Round(T, 10000)
  /\ net = Round((G * 10000 - T) * P - 10000 * F, 10000 * P)

(* Net is gross less fee and tax but for a cent: three roundings of half a  *)
(* cent each, and a whole number.                                           *)
LEMMA RoundedRow ==
  ASSUME NEW P, NEW G, NEW T, NEW F, NEW fee, NEW tax, NEW net,
         RoundedOff(P, G, T, F, fee, tax, net)
  PROVE  Size(net - (G - fee - tax)) <= 1
<1> DEFINE N == (G * 10000 - T) * P - 10000 * F
           W == 10000 * P
<1>0. /\ P \in Nat /\ P > 0 /\ G \in Int /\ T \in Int /\ F \in Int
      /\ fee \in Int /\ tax \in Int /\ net \in Int
      /\ N = (G * 10000 - T) * P - 10000 * F /\ W = 10000 * P
      /\ fee = Round(F, P) /\ tax = Round(T, 10000) /\ net = Round(N, W)
  BY DEF RoundedOff
<1> HIDE DEF N, W
<1> DEFINE D == net - (G - fee - tax)
<1>1. D \in Int
  BY <1>0
<1>2. -P <= 2 * (P * fee) - 2 * F /\ 2 * (P * fee) - 2 * F <= P
  BY <1>0, RoundNear
<1>3. -10000 <= 2 * (10000 * tax) - 2 * T /\ 2 * (10000 * tax) - 2 * T <= 10000
  BY <1>0, RoundNear
<1>n. N \in Int /\ 10000 * P \in Nat /\ 10000 * P > 0
  <2>1. \A m, n \in Int : m * n \in Int
    BY <1>0
  <2>2. (G * 10000 - T) * P \in Int
    BY <1>0, <2>1
  <2> QED BY <1>0, <2>2
<1>4. -W <= 2 * (W * net) - 2 * N /\ 2 * (W * net) - 2 * N <= W
  <2>1. W \in Nat /\ W > 0 /\ net = Round(N, W)
    BY <1>0, <1>n
  <2> QED BY <1>0, <1>n, <2>1, RoundNear
<1>5. \A x, y \in Int : x <= y => P * x <= P * y
  BY <1>0
<1>6. /\ P * net \in Int /\ P * G \in Int /\ P * T \in Int /\ P * fee \in Int /\ P * tax \in Int
  BY <1>0
<1>7. W * net = 10000 * (P * net)
  BY <1>0
<1>8. N = 10000 * (P * G) - P * T - 10000 * F
  <2>1. \A x, y \in Int : (x * 10000 - y) * P = 10000 * (P * x) - P * y
    BY <1>0
  <2> QED BY <1>0, <2>1
<1>9. P * (2 * (10000 * tax) - 2 * T) = 20000 * (P * tax) - 2 * (P * T)
  <2>1. \A x, y \in Int : P * (2 * (10000 * x) - 2 * y) = 20000 * (P * x) - 2 * (P * y)
    BY <1>0
  <2> QED BY <1>0, <2>1
<1>10. -10000 * P <= 20000 * (P * tax) - 2 * (P * T) /\ 20000 * (P * tax) - 2 * (P * T) <= 10000 * P
  <2>1. 2 * (10000 * tax) - 2 * T \in Int /\ P * (-10000) = -10000 * P /\ P * 10000 = 10000 * P
    BY <1>0
  <2> QED BY <1>0, <1>3, <1>5, <1>9, <2>1
<1>11. P * D = P * net - P * G + P * fee + P * tax
  <2>1. \A w, x, y, z \in Int : P * (w - (x - y - z)) = P * w - P * x + P * y + P * z
    BY <1>0
  <2> QED BY <1>0, <2>1
<1>12. P * D \in Int /\ W = 10000 * P
  BY <1>0, <1>1
<1> DEFINE a == P * net
           b == P * G
           c == P * T
           d == P * fee
           e == P * tax
           x == P * D
<1>13. /\ a \in Int /\ b \in Int /\ c \in Int /\ d \in Int /\ e \in Int /\ x \in Int
       /\ x = a - b + d + e
       /\ -P <= 2 * d - 2 * F /\ 2 * d - 2 * F <= P
       /\ -10000 * P <= 20000 * e - 2 * c /\ 20000 * e - 2 * c <= 10000 * P
       /\ -10000 * P <= 20000 * a - 2 * (10000 * b - c - 10000 * F)
       /\ 20000 * a - 2 * (10000 * b - c - 10000 * F) <= 10000 * P
  <2> HIDE DEF D
  <2> QED BY <1>0, <1>2, <1>4, <1>6, <1>7, <1>8, <1>10, <1>11, <1>12
<1>14. 20000 * x <= 30000 * P /\ -30000 * P <= 20000 * x
  <2> HIDE DEF a, b, c, d, e, x
  <2> QED BY <1>0, <1>13
<1>15. D >= 2 => 2 * P <= x
  <2>1. \A z \in Int : z >= 2 => 2 * P <= P * z
    BY <1>0
  <2> QED BY <1>0, <1>1, <2>1
<1>16. D <= -2 => x <= -2 * P
  <2>1. \A z \in Int : z <= -2 => P * z <= -2 * P
    BY <1>0
  <2> QED BY <1>0, <1>1, <2>1
<1> HIDE DEF D, x
<1>17. -1 <= D /\ D <= 1
  BY <1>0, <1>1, <1>13, <1>14, <1>15, <1>16
<1>18. Size(D) <= 1
  BY <1>0, <1>1, <1>17 DEF Size
<1> QED BY <1>18 DEF D

(* A row is what the exact fee and tax make it, rounded. *)
LEMMA RowRounds ==
  ASSUME TypeInv, NEW r \in pnls, IsRow(r)
  PROVE  Size(r.net - (r.gross - r.fee - r.tax)) <= 1
<1> DEFINE o == order[r.trade]
           l == lots[r.lot]
           parts == l.original * o.qty
           fee == (l.fee * o.qty + o.fee * l.original) * r.quantity
<1>1. /\ r.gross \in Int /\ r.fee \in Int /\ r.tax \in Int /\ r.net \in Int /\ RawTax(r) \in Int
      /\ r.tax = Round(RawTax(r), 10000) /\ r.fee = Round(fee, parts)
      /\ r.net = Round((r.gross * 10000 - RawTax(r)) * parts - 10000 * fee, 10000 * parts)
      /\ o.qty \in Nat /\ o.qty > 0 /\ o.fee \in Nat /\ r.quantity \in Nat /\ r.lot \in DOMAIN lots
  BY RowIs
<1>2. l.original \in Nat /\ l.original > 0 /\ l.fee \in Nat
  BY <1>1, LotFields
<1> HIDE DEF o, l
<1>3. parts \in Nat /\ parts > 0
  <2>1. \A a \in Nat, b \in Nat : a > 0 /\ b > 0 => a * b \in Nat /\ a * b > 0
    OBVIOUS
  <2> QED BY <1>1, <1>2, <2>1
<1>4. fee \in Int
  BY <1>1, <1>2
<1>5. RoundedOff(parts, r.gross, RawTax(r), fee, r.fee, r.tax, r.net)
  BY <1>1, <1>3, <1>4 DEF RoundedOff
<1> QED BY <1>5, RoundedRow

-----------------------------------------------------------------------------
(* Sold-out positions. *)

SoldOut(p) ==
  /\ Quiet(p) /\ off[p] \cap {"lots", "part"} = {}
  /\ \A l \in LotsOf(p) : lots[l].remaining = 0

SalesOf(p) == {t \in Trades : Position(t) = p /\ order[t].type = "SELL" /\ pc[t] = "ok"}

(* The rows of a sold lot add up to what was bought. *)
LEMMA RowsOfLot ==
  ASSUME BookInv, Conserve, NEW p \in Positions, SoldOut(p), NEW l \in LotsOf(p)
  PROVE  /\ {r \in RowsOf(p) : r.lot = l} \in SUBSET pnls
         /\ Sold({r \in RowsOf(p) : r.lot = l}) = lots[l].original
<1>1. l \in DOMAIN lots /\ lots[l].position = p /\ lots[l].remaining = 0
  BY DEF LotsOf, SoldOut
<1>2. "lots" \notin off[p]
  BY DEF SoldOut
<1>3. lots[l].original = lots[l].remaining + Sold(CountedOn(l))
  BY <1>1, <1>2, LotsConservedIs DEF Conserve
<1>4. CountedOn(l) = {r \in RowsOf(p) : r.lot = l}
  <2>0. TypeInv /\ \A r \in pnls : IsRow(r)
    BY DEF BookInv, RowFacts
  <2>1. \A r \in pnls : r.lot = l => Position(r.trade) = p /\ r.trade \in Trades
    BY <1>1, <2>0, RowIs
  <2>2. \A r \in pnls : r.lot = l => pc[r.trade] # "update"
    BY <2>1 DEF SoldOut, Quiet, Running
  <2> QED BY <2>1, <2>2 DEF CountedOn, RowsOf, Position
<1>5. {r \in RowsOf(p) : r.lot = l} \in SUBSET pnls
  BY DEF RowsOf
<1>6. Sold(CountedOn(l)) \in Nat
  BY <1>4, <1>5, RowSets
<1> QED BY <1>1, <1>3, <1>4, <1>5, <1>6

(* The rows of a sale add up to what was sold. *)
LEMMA RowsOfSale ==
  ASSUME BookInv, FillInv, RecordInv, NEW p \in Positions, SoldOut(p), NEW t \in SalesOf(p)
  PROVE  /\ {r \in RowsOf(p) : r.trade = t} \in SUBSET pnls
         /\ Sold({r \in RowsOf(p) : r.trade = t}) = order[t].qty
<1>1. t \in Trades /\ Position(t) = p /\ order[t].type = "SELL" /\ pc[t] = "ok"
  BY DEF SalesOf
<1>2. Sold(RowsOfTrade(t)) = order[t].qty
  BY <1>1 DEF FillInv, FillOf
<1>3. RowsOfTrade(t) = {r \in RowsOf(p) : r.trade = t}
  BY <1>1 DEF RowsOfTrade, RowsOf, Position
<1> QED BY <1>2, <1>3 DEF RowsOf

(* The lot and the sale of a row are of one position. *)
LEMMA RowsOwners ==
  ASSUME BookInv, RecordInv, NEW p \in Positions, SoldOut(p), NEW r \in RowsOf(p)
  PROVE  r \in pnls /\ IsRow(r) /\ r.lot \in LotsOf(p) /\ r.trade \in SalesOf(p)
<1>1. r \in pnls /\ IsRow(r) /\ pc[r.trade] \in Booking /\ order[r.trade].position = p
  BY DEF RowsOf, BookInv, RowFacts
<1>2. r.trade \in Trades /\ order[r.trade].type = "SELL"
  BY <1>1, RowIs DEF BookInv, IsRow
<1>3. r.lot \in LotsOf(p)
  BY <1>1 DEF IsRow, LotsOf, Position
<1>4. pc[r.trade] # "failed"
  BY <1>1, <1>2 DEF RecordInv, FailuresShow, SoldOut, Position
<1>5. pc[r.trade] = "ok"
  BY <1>1, <1>2, <1>4 DEF SoldOut, Quiet, Running, Booking, Position
<1> QED BY <1>1, <1>2, <1>3, <1>5 DEF SalesOf, Position

(* A fee rounded to the cent, to a common multiple of its parts: half a cent *)
(* off at most.                                                             *)
LEMMA SharedFee ==
  ASSUME NEW P \in Nat, P > 0, NEW F \in Int, NEW fee \in Int, fee = Round(F, P),
         NEW ab \in Nat, NEW x \in Int, ab * F = x
  PROVE  /\ 2 * ((ab * P) * fee) <= 2 * x + ab * P
         /\ 2 * x <= 2 * ((ab * P) * fee) + ab * P
<1>1. -P <= 2 * (P * fee) - 2 * F /\ 2 * (P * fee) - 2 * F <= P
  BY RoundNear
<1>2. \A m, n \in Int : m <= n => ab * m <= ab * n
  OBVIOUS
<1>3. P * fee \in Int
  OBVIOUS
<1>4. \A m \in Int : ab * (2 * m - 2 * F) = 2 * (ab * m) - 2 * x
  <2>1. \A m, n \in Int : ab * (2 * m - 2 * n) = 2 * (ab * m) - 2 * (ab * n)
    OBVIOUS
  <2> QED BY <2>1
<1>5. ab * (P * fee) = (ab * P) * fee
  <2>1. \A m, n, k \in Int : m * (n * k) = (m * n) * k
    OBVIOUS
  <2> QED BY <2>1
<1>6. ab * (-P) <= ab * (2 * (P * fee) - 2 * F) /\ ab * (2 * (P * fee) - 2 * F) <= ab * P
  <2>1. -P \in Int /\ 2 * (P * fee) - 2 * F \in Int /\ P \in Int
    BY <1>3
  <2> QED BY <1>1, <1>2, <2>1
<1>7. ab * (-P) = -(ab * P)
  OBVIOUS
<1>8. ab * (2 * (P * fee) - 2 * F) = 2 * ((ab * P) * fee) - 2 * x
  BY <1>3, <1>4, <1>5
<1> DEFINE w == ab * P
           v == w * fee
<1>9. w \in Int
  OBVIOUS
<1>10. v \in Int
  BY <1>9
<1>11. -w <= 2 * v - 2 * x /\ 2 * v - 2 * x <= w
  BY <1>6, <1>7, <1>8
<1>12. 2 * v <= 2 * x + w /\ 2 * x <= 2 * v + w
  <2> HIDE DEF w, v
  <2> QED BY <1>9, <1>10, <1>11
<1> QED BY <1>12

(* The fee of a part of a lot and of a sale, to common multiples. *)
LEMMA PartOfBoth ==
  ASSUME NEW a \in Int, NEW b \in Int, NEW o \in Int, NEW q \in Int,
         NEW f \in Int, NEW g \in Int, NEW k \in Int
  PROVE  /\ (a * b) * ((f * q + g * o) * k) = (b * q) * ((a * f) * k) + (a * o) * ((b * g) * k)
         /\ (a * b) * (o * q) = (a * o) * (b * q)
OBVIOUS

(* The weights, to the common multiples A and B, of one row's fee.          *)
LEMMA RowShare ==
  ASSUME TypeInv, NEW r \in pnls, IsRow(r),
         NEW a \in Nat, NEW b \in Nat, NEW A, NEW B,
         A = a * lots[r.lot].original, B = b * order[r.trade].qty
  PROVE  LET M == A * B
             z == B * ((a * lots[r.lot].fee) * r.quantity) + A * ((b * order[r.trade].fee) * r.quantity)
         IN  /\ z \in Int /\ M \in Int
             /\ 2 * (M * r.fee) <= 2 * z + M
             /\ 2 * z <= 2 * (M * r.fee) + M
<1> DEFINE o == lots[r.lot].original
           q == order[r.trade].qty
           f == lots[r.lot].fee
           g == order[r.trade].fee
           k == r.quantity
           P == o * q
           F == (f * q + g * o) * k
           ab == a * b
           M == A * B
           z == B * ((a * f) * k) + A * ((b * g) * k)
<1>1. r.lot \in DOMAIN lots /\ q \in Nat /\ q > 0 /\ g \in Nat /\ k \in Nat /\ r.fee \in Int
      /\ r.fee = Round(F, P)
  BY RowIs
<1>2. o \in Nat /\ o > 0 /\ f \in Nat
  BY <1>1, LotFields
<1>3. A = a * o /\ B = b * q
  OBVIOUS
<1> HIDE DEF o, q, f, g, k
<1>4. \A m, n \in Nat : m * n \in Nat /\ (m > 0 /\ n > 0 => m * n > 0)
  OBVIOUS
<1>5. P \in Nat /\ P > 0 /\ ab \in Nat /\ F \in Nat
  BY <1>1, <1>2, <1>4
<1>6. ab * F = z /\ ab * P = M
  BY <1>1, <1>2, <1>3, PartOfBoth
<1> HIDE DEF P, F, ab, z, M
<1>7. z \in Int /\ M \in Int
  BY <1>5, <1>6, <1>4
<1>8. /\ 2 * ((ab * P) * r.fee) <= 2 * z + ab * P
      /\ 2 * z <= 2 * ((ab * P) * r.fee) + ab * P
  BY <1>1, <1>5, <1>6, <1>7, SharedFee
<1>9. z \in Int /\ M \in Int /\ 2 * (M * r.fee) <= 2 * z + M /\ 2 * z <= 2 * (M * r.fee) + M
  BY <1>6, <1>7, <1>8
<1> QED BY <1>9 DEF z, M, o, q, f, g, k

(* The fees of a sold-out position, but for the rounding of its rows. *)
LEMMA FeesAddUp ==
  ASSUME BookInv, FillInv, Conserve, RecordInv, NEW p \in Positions, SoldOut(p)
  PROVE  LET fees == Sum([l \in LotsOf(p) |-> lots[l].fee]) + Sum([t \in SalesOf(p) |-> order[t].fee])
         IN  2 * Size(Sum([r \in RowsOf(p) |-> r.fee]) - fees) <= Cardinality(RowsOf(p))
<1> DEFINE R == RowsOf(p)
           L == LotsOf(p)
           S == SalesOf(p)
           orig == [l \in L |-> lots[l].original]
           lotFee == [l \in L |-> lots[l].fee]
           asked == [t \in S |-> order[t].qty]
           saleFee == [t \in S |-> order[t].fee]
           qty == [r \in R |-> r.quantity]
           lotOf == [r \in R |-> r.lot]
           saleOf == [r \in R |-> r.trade]
           rowFee == [r \in R |-> r.fee]
<1>t. TypeInv /\ order \in Scenarios
  BY DEF BookInv, TypeInv, TypeOK, StoreTypeOK
<1>1. /\ R \in SUBSET pnls /\ IsFiniteSet(R) /\ Cardinality(R) \in Nat
      /\ \A r \in R : r \in pnls /\ IsRow(r) /\ r.lot \in L /\ r.trade \in S
  <2>1. R \in SUBSET pnls
    BY DEF RowsOf
  <2> QED BY <2>1, RowsAre, RowsOwners
<1>2. IsFiniteSet(L) /\ IsFiniteSet(S) /\ S \subseteq Trades /\ L \subseteq DOMAIN lots
  <2>1. S \subseteq Asked /\ IsFiniteSet(Asked)
    BY DEF SalesOf, Asked, RecordInv, TradedExist
  <2>2. L \subseteq DOMAIN lots /\ IsFiniteSet(DOMAIN lots)
    BY <1>t, ActiveLots DEF LotsOf
  <2> QED BY <2>1, <2>2, FS_Subset DEF SalesOf
<1>3. orig \in [L -> Nat \ {0}] /\ lotFee \in [L -> Int]
  <2>1. \A l \in L : lots[l].original \in Nat \ {0} /\ lots[l].fee \in Int
    BY <1>t, <1>2, LotFields
  <2> QED BY <2>1
<1>4. asked \in [S -> Nat \ {0}] /\ saleFee \in [S -> Int]
  <2>1. \A t \in S : order[t].qty \in Nat /\ order[t].fee \in Int
    BY <1>t, <1>2, OrderFields
  <2>2. \A t \in S : order[t].qty > 0
    BY DEF SalesOf, RecordInv, SalesAsk
  <2> QED BY <2>1, <2>2
<1>5. /\ qty \in [R -> Int] /\ lotOf \in [R -> L] /\ saleOf \in [R -> S] /\ rowFee \in [R -> Int]
  <2>1. \A r \in R : r.quantity \in Int /\ r.fee \in Int
    BY <1>t, <1>1, RowIs
  <2> QED BY <1>1, <2>1
<1>6. PICK A \in Nat \ {0}, a \in [L -> Nat \ {0}] : \A l \in L : A = a[l] * orig[l]
  <2> HIDE DEF orig, L
  <2>1. \E M \in Nat \ {0} : \E k \in [L -> Nat \ {0}] : \A x \in L : M = k[x] * orig[x]
    <3>1. AllPositive(L, orig)
      BY <1>2, <1>3 DEF AllPositive
    <3> QED BY ONLY <3>1, MultipleExists DEF HaveMultiple
  <2> QED BY <2>1
<1>7. PICK B \in Nat \ {0}, b \in [S -> Nat \ {0}] : \A t \in S : B = b[t] * asked[t]
  <2> HIDE DEF asked, S
  <2>1. \E M \in Nat \ {0} : \E k \in [S -> Nat \ {0}] : \A x \in S : M = k[x] * asked[x]
    <3>1. AllPositive(S, asked)
      BY <1>2, <1>4 DEF AllPositive
    <3> QED BY ONLY <3>1, MultipleExists DEF HaveMultiple
  <2> QED BY <2>1
<1>n. A \in Nat /\ A > 0 /\ B \in Nat /\ B > 0 /\ a \in [L -> Int] /\ b \in [S -> Int]
  BY <1>6, <1>7
<1> DEFINE ofLot == [l \in L |-> Sum([r \in {s \in R : lotOf[s] = l} |-> qty[r]])]
           ofSale == [t \in S |-> Sum([r \in {s \in R : saleOf[s] = t} |-> qty[r]])]
           x == [r \in R |-> (a[lotOf[r]] * lotFee[lotOf[r]]) * qty[r]]
           y == [r \in R |-> (b[saleOf[r]] * saleFee[saleOf[r]]) * qty[r]]
           Bx == [r \in R |-> B * x[r]]
           Ay == [r \in R |-> A * y[r]]
           z == [r \in R |-> Bx[r] + Ay[r]]
           M == A * B
           MM == 2 * M
           two == 2
<1>8. ofLot = orig
  <2> SUFFICES ASSUME NEW l \in L
               PROVE  Sum([r \in {s \in R : lotOf[s] = l} |-> qty[r]]) = lots[l].original
    OBVIOUS
  <2>1. {s \in R : lotOf[s] = l} = {r \in R : r.lot = l}
    OBVIOUS
  <2>2. [r \in {s \in R : lotOf[s] = l} |-> qty[r]] = [r \in {s \in R : s.lot = l} |-> r.quantity]
    BY <2>1
  <2>3. Sold({r \in R : r.lot = l}) = lots[l].original
    BY RowsOfLot
  <2> QED BY <2>2, <2>3 DEF Sold
<1>9. ofSale = asked
  <2> SUFFICES ASSUME NEW t \in S
               PROVE  Sum([r \in {s \in R : saleOf[s] = t} |-> qty[r]]) = order[t].qty
    OBVIOUS
  <2>1. {s \in R : saleOf[s] = t} = {r \in R : r.trade = t}
    OBVIOUS
  <2>2. [r \in {s \in R : saleOf[s] = t} |-> qty[r]] = [r \in {s \in R : s.trade = t} |-> r.quantity]
    BY <2>1
  <2>3. Sold({r \in R : r.trade = t}) = order[t].qty
    BY RowsOfSale
  <2> QED BY <2>2, <2>3 DEF Sold
<1>10. x \in [R -> Int] /\ y \in [R -> Int] /\ Bx \in [R -> Int] /\ Ay \in [R -> Int] /\ z \in [R -> Int]
  <2>m. \A m, n \in Int : m * n \in Int
    OBVIOUS
  <2>1. \A r \in R : a[lotOf[r]] \in Int /\ lotFee[lotOf[r]] \in Int /\ qty[r] \in Int
                     /\ b[saleOf[r]] \in Int /\ saleFee[saleOf[r]] \in Int
    BY ONLY <1>3, <1>4, <1>5, <1>n
  <2>2. x \in [R -> Int] /\ y \in [R -> Int]
    <3> HIDE DEF lotOf, lotFee, qty, saleOf, saleFee
    <3> QED BY <2>m, <2>1
  <2> HIDE DEF x, y
  <2>3. A \in Int /\ B \in Int
    BY <1>n
  <2>4. Bx \in [R -> Int] /\ Ay \in [R -> Int]
    BY <2>m, <2>2, <2>3
  <2> HIDE DEF Bx, Ay
  <2>5. z \in [R -> Int]
    BY <2>4
  <2> HIDE DEF z
  <2> QED BY <2>2, <2>4, <2>5
<1>11. /\ \A r \in R : x[r] = (a[lotOf[r]] * lotFee[lotOf[r]]) * qty[r]
       /\ \A r \in R : y[r] = (b[saleOf[r]] * saleFee[saleOf[r]]) * qty[r]
       /\ \A r \in R : Bx[r] = B * x[r]
       /\ \A r \in R : Ay[r] = A * y[r]
       /\ \A r \in R : z[r] = Bx[r] + Ay[r]
  OBVIOUS
<1>12. \A r \in R : MM * rowFee[r] <= two * z[r] + M /\ two * z[r] <= MM * rowFee[r] + M
  <2> SUFFICES ASSUME NEW r \in R
               PROVE  MM * rowFee[r] <= two * z[r] + M /\ two * z[r] <= MM * rowFee[r] + M
    OBVIOUS
  <2> DEFINE c == a[r.lot]
             d == b[r.trade]
             w == B * ((c * lots[r.lot].fee) * r.quantity) + A * ((d * order[r.trade].fee) * r.quantity)
  <2>1. r \in pnls /\ IsRow(r) /\ r.lot \in L /\ r.trade \in S
    BY <1>1
  <2>2. c \in Nat /\ d \in Nat /\ A = c * lots[r.lot].original /\ B = d * order[r.trade].qty
    BY <1>6, <1>7, <2>1
  <2>3. z[r] = w
    BY <2>1
  <2>4. rowFee[r] = r.fee /\ r.fee \in Int
    BY <1>5
  <2> HIDE DEF c, d
  <2>5. /\ w \in Int /\ M \in Int
        /\ 2 * (M * r.fee) <= 2 * w + M
        /\ 2 * w <= 2 * (M * r.fee) + M
    BY ONLY <1>t, <2>1, <2>2, RowShare
  <2>6. MM * r.fee = 2 * (M * r.fee)
    <3> HIDE DEF M
    <3> QED BY <2>4, <2>5
  <2> HIDE DEF z, M, MM, w, rowFee
  <2> QED BY <2>3, <2>4, <2>5, <2>6
<1>p. M \in Nat /\ M > 0 /\ M \in Int /\ MM \in Int /\ two \in Int
  <2>1. \A m, n \in Nat : m > 0 /\ n > 0 => m * n \in Nat /\ m * n > 0
    OBVIOUS
  <2>2. M \in Nat /\ M > 0
    BY <1>n, <2>1
  <2> HIDE DEF M
  <2> QED BY <2>2
<1>o. orig \in [L -> Int] /\ asked \in [S -> Int] /\ A \in Int /\ B \in Int
  BY <1>3, <1>4, <1>n
<1>q. /\ ofLot \in [L -> Int] /\ ofSale \in [S -> Int]
      /\ \A l \in L : ofLot[l] = Sum([r \in {s \in R : lotOf[s] = l} |-> qty[r]]) /\ ofLot[l] = orig[l]
      /\ \A t \in S : ofSale[t] = Sum([r \in {s \in R : saleOf[s] = t} |-> qty[r]]) /\ ofSale[t] = asked[t]
  <2>1. ofLot \in [L -> Int] /\ ofSale \in [S -> Int]
    BY <1>8, <1>9, <1>o
  <2>2. \A l \in L : ofLot[l] = Sum([r \in {s \in R : lotOf[s] = l} |-> qty[r]])
    OBVIOUS
  <2>3. \A t \in S : ofSale[t] = Sum([r \in {s \in R : saleOf[s] = t} |-> qty[r]])
    OBVIOUS
  <2> HIDE DEF ofLot, ofSale, orig, asked
  <2> QED BY <1>8, <1>9, <2>1, <2>2, <2>3
<1> HIDE DEF R, L, S, orig, lotFee, asked, saleFee, qty, lotOf, saleOf, rowFee, x, y, Bx, Ay, z, M, MM, two,
             ofLot, ofSale
<1>13. Sum(x) = A * Sum(lotFee)
  <2>1. \A l \in L : A = a[l] * orig[l] /\ orig[l] = Sum([r \in {s \in R : lotOf[s] = l} |-> qty[r]])
    BY <1>6, <1>q
  <2>2. SharesOf(R, L, lotOf, qty, orig, lotFee, A, a, x)
    BY <1>1, <1>2, <1>3, <1>5, <1>n, <1>o, <1>10, <1>11, <2>1 DEF SharesOf
  <2> QED BY <2>2, SharedOut
<1>14. Sum(y) = B * Sum(saleFee)
  <2>1. \A t \in S : B = b[t] * asked[t] /\ asked[t] = Sum([r \in {s \in R : saleOf[s] = t} |-> qty[r]])
    BY <1>7, <1>q
  <2>2. SharesOf(R, S, saleOf, qty, asked, saleFee, B, b, y)
    BY <1>1, <1>2, <1>4, <1>5, <1>n, <1>o, <1>10, <1>11, <2>1 DEF SharesOf
  <2> QED BY <2>2, SharedOut
<1>15. Sum(Bx) = B * Sum(x)
  <2>1. Scaled(R, B, x, Bx)
    BY <1>1, <1>o, <1>10, <1>11 DEF Scaled
  <2> QED BY ONLY <2>1, ScaledSums
<1>16. Sum(Ay) = A * Sum(y)
  <2>1. Scaled(R, A, y, Ay)
    BY <1>1, <1>o, <1>10, <1>11 DEF Scaled
  <2> QED BY ONLY <2>1, ScaledSums
<1>17. Sum(z) = Sum(Bx) + Sum(Ay)
  <2>1. Added(R, Bx, Ay, z)
    BY <1>1, <1>10, <1>11 DEF Added
  <2> QED BY ONLY <2>1, AddedSums
<1>18. MM * Sum(rowFee) <= two * Sum(z) + M * Cardinality(R)
  BY ONLY <1>1, <1>5, <1>10, <1>12, <1>p, SumBound
<1>19. two * Sum(z) <= MM * Sum(rowFee) + M * Cardinality(R)
  BY ONLY <1>1, <1>5, <1>10, <1>12, <1>p, SumBound
<1>20. Sum(lotFee) \in Int /\ Sum(saleFee) \in Int /\ Sum(rowFee) \in Int
  BY <1>1, <1>2, <1>3, <1>4, <1>5, SumType
<1> DEFINE F == Sum(lotFee) + Sum(saleFee)
           D == Sum(rowFee) - F
<1>21. Sum(z) = M * F
  <2>1. \A u, v, m, n \in Int : m * (n * u) + n * (m * v) = (n * m) * (u + v)
    OBVIOUS
  <2>2. Sum(z) = B * (A * Sum(lotFee)) + A * (B * Sum(saleFee))
    BY <1>13, <1>14, <1>15, <1>16, <1>17
  <2> QED BY <1>o, <1>20, <2>1, <2>2 DEF M
<1>22. F \in Int /\ D \in Int /\ Cardinality(R) \in Int
  BY <1>1, <1>20
<1>23. MM * Sum(rowFee) = 2 * (M * F) + M * (2 * D)
  <2>1. \A u, v \in Int : (2 * M) * u = 2 * (M * v) + M * (2 * (u - v))
    BY <1>p
  <2> QED BY <1>20, <1>22, <2>1 DEF MM
<1>24. M * (2 * D) <= M * Cardinality(R) /\ M * (2 * (-D)) <= M * Cardinality(R)
  <2> DEFINE u == M * F
             v == M * (2 * D)
             w == M * Cardinality(R)
  <2>1. u \in Int /\ v \in Int /\ w \in Int /\ M * (2 * (-D)) = -v
    BY <1>p, <1>22
  <2>2. 2 * u + v <= 2 * u + w /\ 2 * u <= 2 * u + v + w
    BY <1>18, <1>19, <1>21, <1>23 DEF two
  <2> HIDE DEF u, v, w
  <2>3. v <= w /\ -v <= w
    BY <2>1, <2>2
  <2> QED BY <2>1, <2>3 DEF v, w
<1>25. 2 * D <= Cardinality(R) /\ 2 * (-D) <= Cardinality(R)
  <2>1. \A u, v \in Int : M * u <= M * v => u <= v
    BY <1>p
  <2>2. 2 * D \in Int /\ 2 * (-D) \in Int
    BY <1>22
  <2> HIDE DEF D
  <2> QED BY <1>22, <1>24, <2>1, <2>2
<1>26. 2 * Size(D) <= Cardinality(R)
  BY <1>22, <1>25 DEF Size
<1> QED BY <1>26 DEF R, L, S, lotFee, saleFee, rowFee

(* Rows add up to the cent, and over a sold-out position their fees to those *)
(* of its lots and sales, for any quantities (fifo_engine.go:98-108).       *)
THEOREM RowsAddUpAlways == Spec => []RowsAddUp
<1>1. Books => RowsAddUp
  <2> SUFFICES ASSUME Books PROVE RowsAddUp
    OBVIOUS
  <2>1. BookInv /\ FillInv /\ Conserve /\ RecordInv
    BY DEF Books
  <2>2. \A r \in pnls : Size(r.net - (r.gross - r.fee - r.tax)) <= 1
    BY <2>1, RowRounds DEF BookInv, RowFacts
  <2>3. \A p \in Positions : SoldOut(p) =>
          LET fees == Sum([l \in LotsOf(p) |-> lots[l].fee]) + Sum([t \in SalesOf(p) |-> order[t].fee])
          IN  2 * Size(Sum([r \in RowsOf(p) |-> r.fee]) - fees) <= Cardinality(RowsOf(p))
    BY <2>1, FeesAddUp
  <2> QED BY <2>2, <2>3 DEF RowsAddUp, SoldOut, SalesOf
<1> QED BY <1>1, AlwaysBooks, PTL

-----------------------------------------------------------------------------
(* The columns that are summed. *)
LEMMA ColumnTypes ==
  ASSUME BookInv
  PROVE  \A r \in pnls : r.net \in Int /\ r.gross \in Int /\ r.tax \in Int /\ r.at \in Nat
                         /\ order[r.trade].price * r.quantity \in Int
<1>1. TypeInv /\ \A r \in pnls : IsRow(r)
  BY DEF BookInv, RowFacts
<1>2. \A r \in pnls : /\ r.net \in Int /\ r.gross \in Int /\ r.tax \in Int /\ r.at \in Nat
                      /\ order[r.trade].price \in Nat /\ r.quantity \in Nat
  BY <1>1, RowIs
<1> QED BY <1>2

-----------------------------------------------------------------------------
(* The summary and its sectors. *)

(* An average price is a natural. *)
LEMMA AverageIsNatural ==
  ASSUME NEW cost \in Nat, NEW q \in Nat, q > 0
  PROVE  Round(cost, q) \in Nat
<1>1. Round(cost, q) \in Int /\ -q <= 2 * (q * Round(cost, q)) - 2 * cost
  BY RoundType, RoundNear
<1> DEFINE a == Round(cost, q)
<1> HIDE DEF a
<1>2. ASSUME a \in Int, -q <= 2 * (q * a) - 2 * cost
      PROVE  a \in Nat
  <2>1. a < 0 => q * a <= -q
    <3>1. \A m, n \in Int : m <= n => q * m <= q * n
      OBVIOUS
    <3>2. a < 0 => q * a <= q * (-1)
      BY <1>2, <3>1
    <3> QED BY <3>2
  <2>2. q * a \in Int
    BY <1>2
  <2> QED BY <1>2, <2>1, <2>2
<1> QED BY <1>1, <1>2 DEF a

Detailed(u, fetched) == GetPortfolioSummary(u, fetched).positions

(* What the summary says of the open positions of a user; at its average    *)
(* cost a position has no profit but for rounding.                          *)
LEMMA DetailsAre ==
  ASSUME BookInv, RecordInv, NEW u \in Users, NEW fetched \in BOOLEAN
  PROVE  LET D == Detailed(u, fetched)
         IN  /\ IsFiniteSet(D)
             /\ D = {PositionDetail(p, fetched) : p \in ListActivePositions(u)}
             /\ \A d, e \in D : d.position = e.position => d = e
             /\ \A d \in D : /\ d.price \in Nat /\ d.quantity \in Nat /\ d.quantity > 0
                             /\ d.value \in Nat /\ d.value = d.price * d.quantity /\ d.unrealized \in Int
             /\ ~fetched => \A d \in D : 2 * Size(d.unrealized) <= d.quantity
<1> DEFINE D == {PositionDetail(p, fetched) : p \in ListActivePositions(u)}
           P == ListActivePositions(u)
<1>t. positions \in [Positions -> Aggregates \cup {NoPosition}]
  BY DEF BookInv, TypeInv, TypeOK, StoreTypeOK
<1>1. \A p \in P : /\ p \in Positions /\ positions[p].quantity \in Nat /\ positions[p].quantity > 0
                   /\ positions[p].cost \in Nat /\ Exists(p)
  BY <1>t DEF ListActivePositions, Aggregates, NoPosition, Exists
<1>2. IsFiniteSet(P)
  <2>1. P \subseteq Known
    BY <1>1 DEF Known
  <2> QED BY <2>1, FS_Subset DEF RecordInv, TradedExist
<1>3. IsFiniteSet(D)
  <2> DEFINE f == [p \in P |-> PositionDetail(p, fetched)]
  <2>1. DOMAIN f = P /\ {f[p] : p \in P} = D
    OBVIOUS
  <2> HIDE DEF f, D, P
  <2> QED BY <1>2, <2>1, FiniteImage
<1>4. \A p : PositionDetail(p, fetched).position = p
  BY DEF PositionDetail
<1>5. \A d, e \in D : d.position = e.position => d = e
  BY <1>4
<1>6. \A p \in P : /\ AvgCostPrice(p) \in Nat
                   /\ CurrentPrice(p, fetched) \in Nat
                   /\ AvgCostPrice(p) = Round(positions[p].cost, positions[p].quantity)
                   /\ ~fetched => CurrentPrice(p, fetched) = AvgCostPrice(p)
  <2>1. \A p \in P : AvgCostPrice(p) = Round(positions[p].cost, positions[p].quantity)
    BY <1>1 DEF AvgCostPrice
  <2>2. \A p \in P : AvgCostPrice(p) \in Nat
    BY <1>1, <2>1, AverageIsNatural
  <2>3. \A p \in P : Price[p] \in Nat
    BY <1>1, PortfolioReportsAssumption
  <2> QED BY <2>1, <2>2, <2>3 DEF CurrentPrice
<1>7. \A p \in P : LET d == PositionDetail(p, fetched)
                   IN  /\ d.price = CurrentPrice(p, fetched) /\ d.quantity = positions[p].quantity
                       /\ d.value = CurrentPrice(p, fetched) * positions[p].quantity
                       /\ d.unrealized = d.value - positions[p].cost
  BY DEF PositionDetail
<1>8. \A d \in D : /\ d.price \in Nat /\ d.quantity \in Nat /\ d.quantity > 0
                   /\ d.value \in Nat /\ d.value = d.price * d.quantity /\ d.unrealized \in Int
  <2> SUFFICES ASSUME NEW p \in P
               PROVE  LET d == PositionDetail(p, fetched)
                      IN  /\ d.price \in Nat /\ d.quantity \in Nat /\ d.quantity > 0
                          /\ d.value \in Nat /\ d.value = d.price * d.quantity /\ d.unrealized \in Int
    OBVIOUS
  <2>1. \A m, n \in Nat : m * n \in Nat
    OBVIOUS
  <2> QED BY <1>1, <1>6, <1>7, <2>1
<1>9. ~fetched => \A d \in D : 2 * Size(d.unrealized) <= d.quantity
  <2> SUFFICES ASSUME ~fetched, NEW p \in P
               PROVE  2 * Size(PositionDetail(p, fetched).unrealized) <= PositionDetail(p, fetched).quantity
    OBVIOUS
  <2> DEFINE q == positions[p].quantity
             c == positions[p].cost
             a == Round(c, q)
  <2>1. q \in Nat /\ q > 0 /\ c \in Nat
    BY <1>1
  <2>2. PositionDetail(p, fetched).unrealized = a * q - c /\ PositionDetail(p, fetched).quantity = q
    BY <1>6, <1>7
  <2> HIDE DEF q, c
  <2>3. a \in Int /\ -q <= 2 * (q * a) - 2 * c /\ 2 * (q * a) - 2 * c <= q
    BY <2>1, RoundType, RoundNear
  <2> HIDE DEF a
  <2>4. a * q = q * a /\ q * a \in Int
    BY <2>1, <2>3
  <2>5. 2 * Size(q * a - c) <= q
    BY <2>1, <2>3, <2>4 DEF Size
  <2> QED BY <2>2, <2>4, <2>5
<1> QED BY <1>3, <1>5, <1>8, <1>9 DEF Detailed, GetPortfolioSummary

(* The sectors' sums are the sums of the positions. *)
LEMMA SectorsDivide ==
  ASSUME NEW D, IsFiniteSet(D), \A d \in D : d.value \in Int /\ d.unrealized \in Int
  PROVE  LET sectors == ComputeSectorWeights(D)
         IN  /\ Sum([d \in D |-> d.value]) = Sum([x \in sectors |-> x.value])
             /\ Sum([d \in D |-> d.unrealized]) = Sum([x \in sectors |-> x.unrealized])
<1> DEFINE K == {d.sector : d \in D}
           h == [d \in D |-> d.sector]
           sectors == ComputeSectorWeights(D)
           Of(x) == {d \in D : d.sector = x}
           row == [x \in K |-> [sector |-> x, value |-> Sum([d \in Of(x) |-> d.value]),
                                unrealized |-> Sum([d \in Of(x) |-> d.unrealized]), positions |-> Of(x)]]
           v == [d \in D |-> d.value]
           n == [d \in D |-> d.unrealized]
           vk == [x \in K |-> Sum([d \in Of(x) |-> d.value])]
           nk == [x \in K |-> Sum([d \in Of(x) |-> d.unrealized])]
           vs == [x \in sectors |-> x.value]
           ns == [x \in sectors |-> x.unrealized]
<1>1. h \in [D -> K] /\ v \in [D -> Int] /\ n \in [D -> Int]
  OBVIOUS
<1>2. IsFiniteSet(K)
  <2>1. DOMAIN h = D /\ {h[d] : d \in D} = K
    OBVIOUS
  <2> HIDE DEF h, K
  <2> QED BY <2>1, FiniteImage
<1>3. \A x \in K : Sum([d \in Of(x) |-> d.value]) \in Int /\ Sum([d \in Of(x) |-> d.unrealized]) \in Int
  <2> SUFFICES ASSUME NEW x \in K
               PROVE  Sum([d \in Of(x) |-> d.value]) \in Int /\ Sum([d \in Of(x) |-> d.unrealized]) \in Int
    OBVIOUS
  <2> DEFINE O == Of(x)
             f == [d \in O |-> d.value]
             g == [d \in O |-> d.unrealized]
  <2>1. IsFiniteSet(O) /\ f \in [O -> Int] /\ g \in [O -> Int]
    BY FS_Subset
  <2> HIDE DEF O, f, g
  <2>2. Sum(f) \in Int /\ Sum(g) \in Int
    BY <2>1, SumType
  <2> QED BY <2>2 DEF f, g, O
<1>4. vk \in [K -> Int] /\ nk \in [K -> Int]
  BY <1>3
<1>5. /\ \A x \in K : vk[x] = Sum([d \in {e \in D : h[e] = x} |-> v[d]])
      /\ \A x \in K : nk[x] = Sum([d \in {e \in D : h[e] = x} |-> n[d]])
  <2> SUFFICES ASSUME NEW x \in K
               PROVE  /\ vk[x] = Sum([d \in {e \in D : h[e] = x} |-> v[d]])
                      /\ nk[x] = Sum([d \in {e \in D : h[e] = x} |-> n[d]])
    OBVIOUS
  <2>1. {e \in D : h[e] = x} = Of(x)
    OBVIOUS
  <2>2. [d \in {e \in D : h[e] = x} |-> v[d]] = [d \in Of(x) |-> d.value]
    BY <2>1
  <2>3. [d \in {e \in D : h[e] = x} |-> n[d]] = [d \in Of(x) |-> d.unrealized]
    BY <2>1
  <2> QED BY <2>2, <2>3
<1>6. sectors = {row[x] : x \in K}
  BY DEF ComputeSectorWeights
<1>7. \A x \in K : row[x].sector = x /\ row[x].value = vk[x] /\ row[x].unrealized = nk[x]
  OBVIOUS
<1>8. /\ row \in [K -> sectors]
      /\ \A y \in sectors : \E x \in K : row[x] = y
      /\ \A x \in K, y \in K : row[x] = row[y] => x = y
  <2>1. DOMAIN row = K /\ row = [x \in K |-> row[x]]
    OBVIOUS
  <2> HIDE DEF row, vk, nk, sectors
  <2> QED BY <1>6, <1>7, <2>1
<1>9. vs \in [sectors -> Int] /\ ns \in [sectors -> Int]
  <2> HIDE DEF vk, nk, row
  <2> QED BY <1>4, <1>7, <1>8
<1>10. /\ \A x \in K : vk[x] = vs[row[x]]
       /\ \A x \in K : nk[x] = ns[row[x]]
  <2> HIDE DEF vk, nk, row, sectors
  <2> QED BY <1>7, <1>8
<1> HIDE DEF K, h, sectors, row, v, n, vk, nk, vs, ns
<1>11. Sum(vk) = Sum(v)
  <2>1. IsFiniteSet(D) /\ \A x \in K : vk[x] = Sum([d \in {e \in D : h[e] = x} |-> v[d]])
    BY <1>5
  <2> QED BY ONLY <1>1, <1>2, <1>4, <2>1, SumPartition, SMTT(30)
<1>12. Sum(nk) = Sum(n)
  <2>1. IsFiniteSet(D) /\ \A x \in K : nk[x] = Sum([d \in {e \in D : h[e] = x} |-> n[d]])
    BY <1>5
  <2> QED BY ONLY <1>1, <1>2, <1>4, <2>1, SumPartition, SMTT(30)
<1>13. Sum(vs) = Sum(vk)
  <2>1. /\ IsFiniteSet(K) /\ row \in [K -> sectors]
        /\ \A y \in sectors : \E x \in K : row[x] = y
        /\ \A x \in K, y \in K : row[x] = row[y] => x = y
        /\ vk \in [K -> Int] /\ vs \in [sectors -> Int]
        /\ \A x \in K : vk[x] = vs[row[x]]
    BY <1>2, <1>4, <1>8, <1>9, <1>10
  <2> QED BY ONLY <2>1, SumImage, SMTT(30)
<1>14. Sum(ns) = Sum(nk)
  <2>1. /\ IsFiniteSet(K) /\ row \in [K -> sectors]
        /\ \A y \in sectors : \E x \in K : row[x] = y
        /\ \A x \in K, y \in K : row[x] = row[y] => x = y
        /\ nk \in [K -> Int] /\ ns \in [sectors -> Int]
        /\ \A x \in K : nk[x] = ns[row[x]]
    BY <1>2, <1>4, <1>8, <1>9, <1>10
  <2> QED BY ONLY <2>1, SumImage, SMTT(30)
<1> QED BY <1>11, <1>12, <1>13, <1>14 DEF v, n, vs, ns, sectors

-----------------------------------------------------------------------------
(* The history. *)

(* The rows are in a total order: by date, and those of a sale by lot. *)
LEMMA BeforeOrders ==
  ASSUME BookInv, DatesApart, NEW R \in SUBSET pnls
  PROVE  /\ \A r, s, t \in R : Before(r, s) /\ Before(s, t) => Before(r, t)
         /\ \A r \in R : ~Before(r, r)
         /\ \A r, s \in R : r # s => Before(r, s) \/ Before(s, r)
<1>1. \A r \in R : r.at \in Nat /\ r.lot \in Nat /\ r.trade \in Trades
  BY DEF BookInv, TypeInv, TypeOK, StoreTypeOK, RealizedPnL
<1>2. \A r, s \in R : r.trade = s.trade /\ r.lot = s.lot => r = s
  BY DEF BookInv, RowsOrdered
<1>3. \A r, s \in R : r.at = s.at => r.trade = s.trade
  BY <1>1 DEF DatesApart, BookInv, RowFacts, Booking
<1> QED BY <1>1, <1>2, <1>3 DEF Before

(* The running total of the history ends at the sum of the rows. *)
LEMMA HistoryEnds ==
  ASSUME BookInv, DatesApart, NEW u \in Users
  PROVE  LET history == GetPnLHistory(u, 0, clock)
         IN  (IF history = <<>> THEN 0 ELSE history[Len(history)].cumulative) = SumRealizedPnLByUser(u)
<1> DEFINE R == ListRealizedPnLByPeriod(u, 0, clock)
           n == Cardinality(R)
           below == [r \in R |-> {s \in R : Before(s, r)}]
           dated == [i \in 1..n |-> CHOOSE r \in R : Cardinality({s \in R : Before(s, r)}) = i - 1]
           net == [r \in R |-> r.net]
           nets == [i \in 1..n |-> dated[i].net]
           history == GetPnLHistory(u, 0, clock)
           Entry(i) == [row |-> dated[i], cumulative |-> Sum([j \in 1..i |-> dated[j].net])]
<1>1. R = RowsOfUser(u) /\ R \in SUBSET pnls
  <2>1. \A r \in pnls : r.at \in Nat /\ r.trade \in Trades /\ r.at = at[r.trade]
    BY DEF BookInv, TypeInv, TypeOK, StoreTypeOK, RealizedPnL, DatesApart
  <2>2. \A r \in pnls : 0 <= r.at /\ r.at <= clock
    BY <2>1 DEF DatesApart
  <2>3. RowsOfUser(u) \subseteq pnls
    BY DEF RowsOfUser
  <2> QED BY <2>2, <2>3 DEF ListRealizedPnLByPeriod
<1>2. IsFiniteSet(R) /\ n \in Nat
  BY <1>1, RowsAre
<1>3. below \in [R -> SUBSET R] /\ \A r \in R : below[r] = {s \in R : Before(s, r)}
  OBVIOUS
<1>4. /\ \A r \in R : Cardinality(below[r]) \in 0..(n - 1)
      /\ \A r, s \in R : Cardinality(below[r]) = Cardinality(below[s]) => r = s
      /\ \A i \in 0..(n - 1) : \E r \in R : Cardinality(below[r]) = i
  <2>1. /\ \A r, s, t \in R : Before(r, s) /\ Before(s, t) => Before(r, t)
        /\ \A r \in R : ~Before(r, r)
        /\ \A r, s \in R : r # s => Before(r, s) \/ Before(s, r)
    BY <1>1, BeforeOrders
  <2>2. /\ \A r, s, t \in R : r \in below[s] /\ s \in below[t] => r \in below[t]
        /\ \A r \in R : r \notin below[r]
        /\ \A r, s \in R : r # s => r \in below[s] \/ s \in below[r]
    <3> HIDE DEF R
    <3> QED BY <2>1
  <2> HIDE DEF below, R
  <2> QED BY <1>2, <1>3, <2>2, Ranks
<1>5. \A i \in 1..n : dated[i] \in R /\ Cardinality(below[dated[i]]) = i - 1
  <2> SUFFICES ASSUME NEW i \in 1..n
               PROVE  dated[i] \in R /\ Cardinality(below[dated[i]]) = i - 1
    OBVIOUS
  <2>1. i - 1 \in 0..(n - 1)
    BY <1>2
  <2>2. \E r \in R : Cardinality({s \in R : Before(s, r)}) = i - 1
    <3> HIDE DEF R, dated
    <3> QED BY <1>3, <1>4, <2>1
  <2>3. dated[i] = CHOOSE r \in R : Cardinality({s \in R : Before(s, r)}) = i - 1
    OBVIOUS
  <2>4. dated[i] \in R /\ Cardinality({s \in R : Before(s, dated[i])}) = i - 1
    <3> HIDE DEF dated, R
    <3> QED BY <2>2, <2>3
  <2> HIDE DEF dated
  <2> QED BY <1>3, <2>4
<1>6. /\ dated \in [1..n -> R]
      /\ \A r \in R : \E i \in 1..n : dated[i] = r
      /\ \A i \in 1..n, j \in 1..n : dated[i] = dated[j] => i = j
  <2>1. dated \in [1..n -> R]
    <3> DEFINE e(i) == CHOOSE r \in R : Cardinality({s \in R : Before(s, r)}) = i - 1
    <3>1. DOMAIN dated = 1..n /\ dated = [i \in 1..n |-> dated[i]]
      <4> HIDE DEF e, R
      <4>1. dated = [i \in 1..n |-> e(i)]
        BY DEF e
      <4> HIDE DEF dated
      <4> QED BY <4>1
    <3> HIDE DEF dated
    <3> QED BY <1>5, <3>1
  <2> HIDE DEF dated, below, R
  <2>2. \A r \in R : Cardinality(below[r]) + 1 \in 1..n /\ Cardinality(below[r]) \in Int
    BY <1>2, <1>4
  <2>3. \A r \in R : dated[Cardinality(below[r]) + 1] = r
    BY <1>2, <1>4, <1>5, <2>2
  <2> QED BY <1>2, <1>5, <2>1, <2>2, <2>3
<1>7. net \in [R -> Int] /\ nets \in [1..n -> Int] /\ \A i \in 1..n : nets[i] = net[dated[i]]
  <2>1. \A r \in R : r.net \in Int
    BY <1>1, ColumnTypes
  <2> HIDE DEF dated
  <2> QED BY <1>6, <2>1
<1>8. Sum(nets) = Sum(net)
  <2> DEFINE I == 1..n
  <2>1. IsFiniteSet(I)
    BY <1>2, FS_Interval
  <2>2. /\ IsFiniteSet(I) /\ dated \in [I -> R]
        /\ \A r \in R : \E i \in I : dated[i] = r
        /\ \A i \in I, j \in I : dated[i] = dated[j] => i = j
        /\ nets \in [I -> Int] /\ net \in [R -> Int] /\ \A i \in I : nets[i] = net[dated[i]]
    BY <1>6, <1>7, <2>1
  <2> HIDE DEF dated, R, net, nets, I
  <2> QED BY ONLY <2>2, SumImage, SMTT(30)
<1>9. history = [i \in 1..n |-> Entry(i)]
  BY DEF GetPnLHistory
<1>10. n = 0 => history = <<>>
  BY <1>9
<1>11. n # 0 => Len(history) = n /\ history[n] = Entry(n)
  <2> DEFINE X == {Entry(i) : i \in 1..n}
  <2>1. history \in [1..n -> X]
    <3> HIDE DEF Entry, history
    <3> QED BY <1>9
  <2> HIDE DEF Entry, history
  <2>2. history[n] = Entry(n) \/ n = 0
    BY <1>2, <1>9
  <2> HIDE DEF X
  <2>3. Len(history) = n
    BY <1>2, <2>1
  <2> QED BY <2>2, <2>3
<1>12. Entry(n).cumulative = Sum(nets) /\ SumRealizedPnLByUser(u) = Sum(net)
  BY <1>1 DEF SumRealizedPnLByUser
<1>13. n # 0 => history # <<>>
  <2>1. Len(<<>>) = 0
    OBVIOUS
  <2> HIDE DEF history, Entry, n
  <2> QED BY <1>2, <1>11, <2>1
<1>14. n = 0 => Sum(nets) = 0
  <2>1. n = 0 => 1..n = {}
    OBVIOUS
  <2> HIDE DEF nets, n
  <2>2. n = 0 => nets \in [{} -> Int]
    BY <1>7, <2>1
  <2> QED BY <2>2, SumEmpty
<1>15. /\ n = 0 => history = <<>> /\ Sum(nets) = 0
       /\ n # 0 => history # <<>> /\ history[Len(history)].cumulative = Sum(nets)
  <2> HIDE DEF history, Entry, nets, n
  <2> QED BY <1>10, <1>11, <1>12, <1>13, <1>14
<1>16. SumRealizedPnLByUser(u) = Sum(nets)
  BY <1>8, <1>12
<1>17. (IF history = <<>> THEN 0 ELSE history[Len(history)].cumulative) = SumRealizedPnLByUser(u)
  <2> HIDE DEF history, nets, n
  <2> QED BY <1>15, <1>16
<1> QED BY <1>17

-----------------------------------------------------------------------------
(* Rebalancing. *)

(* The last position of a set of positions. *)
LEMMA MaxOfSet ==
  ASSUME NEW n \in Nat, NEW S \in SUBSET (1..n), S # {}
  PROVE  Max(S) \in S
<1> DEFINE G == {m \in Nat : \A T \in SUBSET (1..m) : T # {} => \E x \in T : \A y \in T : x >= y}
<1>1. 0 \in G
  <2>1. \A T \in SUBSET (1..0) : T = {}
    OBVIOUS
  <2> QED BY <2>1
<1>2. ASSUME NEW m \in Nat, m \in G
      PROVE  m + 1 \in G
  <2> SUFFICES ASSUME NEW T \in SUBSET (1..(m + 1)), T # {}
               PROVE  \E x \in T : \A y \in T : x >= y
    OBVIOUS
  <2>1. CASE m + 1 \in T
    BY <2>1
  <2>2. CASE m + 1 \notin T
    <3>1. T \in SUBSET (1..m)
      BY <2>2
    <3> QED BY <1>2, <3>1
  <2> QED BY <2>1, <2>2
<1>3. n \in G
  <2> HIDE DEF G
  <2> QED BY <1>1, <1>2, NaturalInduction
<1>4. \E x \in S : \A y \in S : x >= y
  BY <1>3
<1> QED BY <1>4 DEF Max

Weights(targets) == [i \in DOMAIN targets |-> targets[i][2]]
NewOnes(D, targets) == {i \in DOMAIN targets : ~\E d \in D : d.position = targets[i][1]}

(* The weights of the plan, of positions held and of new ones. *)
LEMMA WeightsAreShared ==
  ASSUME NEW targets \in Plans, \A i \in DOMAIN targets : targets[i][2] >= 0,
         NEW D, IsFiniteSet(D), \A d, e \in D : d.position = e.position => d = e
  PROVE  /\ IsFiniteSet(DOMAIN targets)
         /\ \A d \in D : Targeted(targets, d.position) \in Nat
         /\ Sum([d \in D |-> Targeted(targets, d.position)])
              + Sum([i \in NewOnes(D, targets) |-> targets[i][2]]) <= Sum(Weights(targets))
<1> DEFINE I == DOMAIN targets
           new == NewOnes(D, targets)
           J == I \ new
           w == Weights(targets)
           wn == [i \in new |-> targets[i][2]]
           wj == [i \in J |-> targets[i][2]]
           h == [i \in J |-> CHOOSE d \in D : d.position = targets[i][1]]
           For(d) == {i \in I : targets[i][1] = d.position}
           part == [d \in D |-> Sum([i \in {j \in J : h[j] = d} |-> wj[i]])]
           aim == [d \in D |-> Targeted(targets, d.position)]
<1>1. /\ I = 1..Len(targets) /\ Len(targets) \in Nat
      /\ \A i \in I : targets[i][2] \in Nat
  BY PortfolioAssumption
<1>2. IsFiniteSet(I)
  BY <1>1, FS_Interval
<1>3. new \in SUBSET I /\ J \in SUBSET I /\ new \cup J = I /\ new \cap J = {}
  BY DEF NewOnes
<1>4. IsFiniteSet(J) /\ IsFiniteSet(new)
  <2> HIDE DEF I, J, new
  <2> QED BY <1>2, <1>3, FS_Subset
<1>5. w \in [I -> Int] /\ wn \in [new -> Int] /\ wj \in [J -> Nat] /\ wj \in [J -> Int]
      /\ (\A i \in new : w[i] = wn[i]) /\ (\A i \in J : w[i] = wj[i])
  BY <1>1, <1>3 DEF Weights
<1>6. \A i \in J : h[i] \in D /\ h[i].position = targets[i][1]
  <2> SUFFICES ASSUME NEW i \in J
               PROVE  h[i] \in D /\ h[i].position = targets[i][1]
    OBVIOUS
  <2>1. \E d \in D : d.position = targets[i][1]
    BY DEF NewOnes
  <2>2. h[i] = CHOOSE d \in D : d.position = targets[i][1]
    OBVIOUS
  <2> HIDE DEF h
  <2> QED BY <2>1, <2>2
<1>7. h \in [J -> D]
  <2>1. h = [i \in J |-> h[i]]
    OBVIOUS
  <2> HIDE DEF h
  <2> QED BY <1>6, <2>1
<1>8. \A d \in D : {j \in J : h[j] = d} = For(d)
  <2> SUFFICES ASSUME NEW d \in D
               PROVE  {j \in J : h[j] = d} = For(d)
    OBVIOUS
  <2>1. \A i \in I : targets[i][1] = d.position => i \in J
    BY DEF NewOnes
  <2>2. \A i : (i \in J /\ h[i] = d) <=> (i \in I /\ targets[i][1] = d.position)
    <3> HIDE DEF h, J
    <3> QED BY <1>3, <1>6, <2>1
  <2> HIDE DEF h, J, I
  <2> QED BY <2>2
<1>9. \A d \in D : LET g == [i \in For(d) |-> wj[i]]
                   IN  IsFiniteSet(For(d)) /\ g \in [For(d) -> Nat] /\ (\A i \in For(d) : g[i] = targets[i][2])
  <2> SUFFICES ASSUME NEW d \in D
               PROVE  LET g == [i \in For(d) |-> wj[i]]
                      IN  IsFiniteSet(For(d)) /\ g \in [For(d) -> Nat] /\ (\A i \in For(d) : g[i] = targets[i][2])
    OBVIOUS
  <2>1. For(d) \in SUBSET J
    BY <1>8
  <2>2. IsFiniteSet(For(d))
    <3> HIDE DEF For, J
    <3> QED BY <1>4, <2>1, FS_Subset
  <2> QED BY <1>1, <1>3, <2>1, <2>2
<1>10. \A d \in D : part[d] = Sum([i \in For(d) |-> wj[i]])
  BY <1>8
<1>11. \A d \in D : part[d] \in Nat /\ Targeted(targets, d.position) \in Nat /\ Targeted(targets, d.position) <= part[d]
  <2> SUFFICES ASSUME NEW d \in D
               PROVE  part[d] \in Nat /\ Targeted(targets, d.position) \in Nat /\ Targeted(targets, d.position) <= part[d]
    OBVIOUS
  <2> DEFINE F == For(d)
             g == [i \in F |-> wj[i]]
  <2>1. IsFiniteSet(F) /\ g \in [F -> Nat] /\ (\A i \in F : g[i] = targets[i][2])
    BY <1>9
  <2>2. part[d] = Sum(g)
    BY <1>10
  <2>3. F \in SUBSET (1..Len(targets))
    BY <1>1
  <2>4. Targeted(targets, d.position) = IF F = {} THEN 0 ELSE targets[Max(F)][2]
    BY DEF Targeted
  <2> HIDE DEF F, g, part, wj, For
  <2>5. Sum(g) \in Nat /\ \A i \in F : g[i] <= Sum(g)
    <3>1. Sum(g) \in Int /\ \A i \in F : g[i] <= Sum(g)
      BY <2>1, SumNonNegative
    <3> QED BY <2>1, <3>1, SumNonNegative
  <2>6. CASE F = {}
    BY <2>2, <2>4, <2>5, <2>6
  <2>7. CASE F # {}
    <3>1. Max(F) \in F
      BY <1>1, <2>3, <2>7, MaxOfSet
    <3> QED BY <2>1, <2>2, <2>4, <2>5, <2>7, <3>1
  <2> QED BY <2>6, <2>7
<1>12. part \in [D -> Int] /\ aim \in [D -> Int] /\ \A d \in D : aim[d] <= part[d]
  <2>1. part = [d \in D |-> part[d]] /\ DOMAIN part = D
    OBVIOUS
  <2> HIDE DEF part
  <2> QED BY <1>11, <2>1
<1>13. \A d \in D : part[d] = Sum([i \in {j \in J : h[j] = d} |-> wj[i]])
  OBVIOUS
<1> HIDE DEF part, aim, h, J, new, w, wn, wj, For
<1>14. Sum(part) = Sum(wj)
  BY ONLY <1>4, <1>5, <1>7, <1>12, <1>13, SumPartition, IsFiniteSet(D)
<1>15. Sum(aim) <= Sum(part)
  BY <1>12, SumMonotone
<1>16. Sum(w) = Sum(wn) + Sum(wj)
  <2> HIDE DEF I
  <2>1. w \in [new \cup J -> Int]
    BY <1>3, <1>5
  <2> QED BY ONLY <1>3, <1>4, <1>5, <2>1, SumSplit
<1>17. Sum(aim) \in Int /\ Sum(part) \in Int /\ Sum(wn) \in Int /\ Sum(wj) \in Int
  BY <1>4, <1>5, <1>12, SumType
<1>18. Sum(aim) + Sum(wn) <= Sum(w)
  BY <1>14, <1>15, <1>16, <1>17
<1> QED BY <1>2, <1>11, <1>18 DEF aim, wn, w, new

(* A position is bought for what it lacks at most, and sold for what it has *)
(* too much but for one share.                                              *)
Valued(d) == d.price \in Nat /\ d.quantity \in Nat /\ d.value = d.price * d.quantity

InBalance(d, weight, total, a) ==
  /\ a.symbol = d.position
  /\ a.amount \in Nat
  /\ (IF a.side = "SELL" THEN a.amount + 100 * d.price ELSE 0)
       - (IF a.side = "BUY" THEN a.amount ELSE 0) >= 100 * d.value - total * weight

(* An action of the plan is off by less than one share. *)
LEMMA OneShareAtMost ==
  ASSUME NEW d, Valued(d), NEW weight \in Nat, NEW total \in Nat
  PROVE  InBalance(d, weight, total, HeldAction(d, weight, total))
<1> USE DEF Valued
<1> DEFINE a == HeldAction(d, weight, total)
           x == total * weight - 100 * d.value
           m == 100 * d.price
           q == IF d.price > 0 THEN Size(x) \div m ELSE 0
           tw == total * weight
<1>1. tw \in Nat /\ d.value \in Nat
  <2>1. \A j, k \in Nat : j * k \in Nat
    OBVIOUS
  <2> QED BY <2>1
<1>2. x \in Int /\ Size(x) \in Nat
  <2>1. x = tw - 100 * d.value
    OBVIOUS
  <2> HIDE DEF x, tw
  <2> QED BY <1>1, <2>1 DEF Size
<1>3. /\ a.symbol = d.position /\ a.amount = 100 * q * d.price
      /\ a.side = IF x > 0 THEN "BUY" ELSE IF x < 0 THEN "SELL" ELSE "HOLD"
  BY DEF HeldAction
<1>4. m \in Nat /\ (d.price > 0 => m > 0)
  OBVIOUS
<1>5. \A s, k \in Nat : k > 0 => s \div k \in Nat /\ k * (s \div k) <= s /\ s < k * (s \div k) + k
  <2> SUFFICES ASSUME NEW s \in Nat, NEW k \in Nat, k > 0
               PROVE  s \div k \in Nat /\ k * (s \div k) <= s /\ s < k * (s \div k) + k
    OBVIOUS
  <2>1. s = k * (s \div k) + (s % k) /\ s % k \in 0..(k - 1) /\ s \div k \in Nat
    OBVIOUS
  <2> QED BY <2>1
<1>6. q \in Nat /\ (d.price > 0 => m * q <= Size(x) /\ Size(x) < m * q + m)
  <2> HIDE DEF x, m
  <2> QED BY <1>2, <1>4, <1>5
<1>7. a.amount = m * q /\ m * q \in Nat
  <2>1. \A k, p \in Nat : 100 * k * p = (100 * p) * k /\ (100 * p) * k \in Nat
    OBVIOUS
  <2> HIDE DEF q
  <2> QED BY <1>3, <1>6, <2>1
<1>8. d.price = 0 => q = 0 /\ x >= 0 /\ m = 0
  <2>1. d.price = 0 => d.value = 0
    <3>1. \A k \in Nat : 0 * k = 0
      OBVIOUS
    <3> QED BY <3>1
  <2>2. d.price = 0 => x = tw
    <3> HIDE DEF tw
    <3>1. x = tw - 100 * d.value
      BY DEF tw
    <3> QED BY <1>1, <2>1, <3>1
  <2> HIDE DEF x, tw
  <2> QED BY <1>1, <2>2
<1>9. x = tw - 100 * d.value
  OBVIOUS
<1> DEFINE b == m * q
<1>10. b \in Nat /\ a.amount = b /\ (d.price > 0 => b <= Size(x) /\ Size(x) < b + m) /\ (d.price = 0 => b = 0)
  <2>1. d.price = 0 => b = 0
    <3> HIDE DEF m, q
    <3>1. 0 * 0 = 0
      OBVIOUS
    <3> QED BY <1>8, <3>1
  <2> HIDE DEF m, q, x
  <2> QED BY <1>6, <1>7, <2>1
<1>11. m = 100 * d.price
  OBVIOUS
<1> HIDE DEF a, b, m, q, x, tw
<1>12. CASE x > 0
  <2>1. Size(x) = x /\ a.side = "BUY"
    BY <1>2, <1>3, <1>12 DEF Size
  <2>2. b <= x
    BY <1>2, <1>10, <1>12, <2>1
  <2> QED BY <1>1, <1>2, <1>3, <1>9, <1>10, <2>1, <2>2 DEF InBalance, a, tw
<1>13. CASE x < 0
  <2>1. Size(x) = -x /\ a.side = "SELL"
    BY <1>2, <1>3, <1>13 DEF Size
  <2>2. d.price > 0
    BY <1>2, <1>8, <1>13
  <2>3. -x < b + m
    BY <1>10, <2>1, <2>2
  <2>4. b + m >= 100 * d.value - tw
    BY <1>1, <1>2, <1>4, <1>9, <1>10, <2>3
  <2> QED BY <1>1, <1>3, <1>4, <1>10, <1>11, <2>1, <2>4 DEF InBalance, a, tw
<1>14. CASE x = 0
  <2>1. a.side = "HOLD"
    BY <1>3, <1>14
  <2>2. 0 >= 100 * d.value - tw
    BY <1>1, <1>9, <1>14
  <2> QED BY <1>3, <1>10, <2>1, <2>2 DEF InBalance, a, tw
<1> QED BY <1>2, <1>12, <1>13, <1>14

(* The actions of one side add up position by position. *)
Acts(D, act, held) ==
  /\ IsFiniteSet(D) /\ DOMAIN act = D /\ held = {act[d] : d \in D}
  /\ \A d \in D : act[d].amount \in Nat
  /\ \A d, e \in D : act[d] = act[e] => d = e

OnOneSide(D, act, side, f) ==
  f \in [D -> Int] /\ \A d \in D : f[d] = IF act[d].side = side THEN act[d].amount ELSE 0

(* The amounts of one side of the plan, summed over actions or positions. *)
LEMMA SideAddsUp ==
  ASSUME NEW D, NEW act, NEW held, NEW side, NEW f, Acts(D, act, held), OnOneSide(D, act, side, f)
  PROVE  Sum([a \in {h \in held : h.side = side} |-> a.amount]) = Sum(f)
<1> USE DEF Acts, OnOneSide
<1> DEFINE X == {h \in held : h.side = side}
           C == {d \in D : act[d].side = side}
           g == [a \in X |-> a.amount]
           c == [d \in C |-> act[d]]
<1>1. C \in SUBSET D /\ (\A d \in D : d \in C <=> act[d].side = side)
  OBVIOUS
<1>2. c \in [C -> X] /\ (\A d \in C : c[d] = act[d])
  OBVIOUS
<1>3. \A y \in X : \E d \in C : act[d] = y
  OBVIOUS
<1>4. g \in [X -> Int] /\ \A a \in X : g[a] = a.amount
  OBVIOUS
<1> HIDE DEF X, C, g, c
<1>5. /\ IsFiniteSet(D) /\ C \in SUBSET D /\ c \in [C -> X]
      /\ \A y \in X : \E d \in C : c[d] = y
      /\ \A d \in C, e \in C : c[d] = c[e] => d = e
      /\ f \in [D -> Int] /\ g \in [X -> Int]
      /\ \A d \in C : f[d] = g[c[d]]
      /\ \A d \in D \ C : f[d] = 0
  <2>1. \A d \in C : d \in D /\ c[d] \in X /\ f[d] = act[d].amount
    BY <1>1, <1>2
  <2>2. \A d \in C : f[d] = g[c[d]]
    BY <1>2, <1>4, <2>1
  <2> QED BY <1>1, <1>2, <1>3, <1>4, <2>1, <2>2
<1>6. Sum(g) = Sum(f)
  BY ONLY <1>5, SumOfImage
<1> QED BY <1>6 DEF g, X

(* A plan pays for itself but for one share of each position sold. *)
Pays(D, targets, total) ==
  LET plan == SimulateRebalance(D, targets, total)
      sold == {d \in D : \E a \in plan.held : a.symbol = d.position /\ a.side = "SELL"}
  IN  plan.accepted /\ (\A i \in DOMAIN targets : targets[i][2] >= 0) =>
        plan.cash + 100 * Sum([d \in sold |-> d.price]) >= 0

Worth(D, total) ==
  /\ IsFiniteSet(D) /\ \A d, e \in D : d.position = e.position => d = e
  /\ \A d \in D : Valued(d) /\ d.value \in Nat
  /\ total = Sum([d \in D |-> d.value])

(* A plan of known weights can be paid, but for a share per sale. *)
LEMMA PlanPays ==
  ASSUME NEW targets \in Plans, NEW D, NEW total, Worth(D, total)
  PROVE  Pays(D, targets, total)
<1> SUFFICES ASSUME \A i \in DOMAIN targets : targets[i][2] >= 0,
                    SimulateRebalance(D, targets, total).accepted
             PROVE  LET plan == SimulateRebalance(D, targets, total)
                        sold == {d \in D : \E a \in plan.held : a.symbol = d.position /\ a.side = "SELL"}
                    IN  plan.cash + 100 * Sum([d \in sold |-> d.price]) >= 0
  BY DEF Pays
<1>0. /\ IsFiniteSet(D) /\ \A d, e \in D : d.position = e.position => d = e
      /\ \A d \in D : d.price \in Nat /\ d.quantity \in Nat /\ d.value \in Nat /\ d.value = d.price * d.quantity
      /\ total = Sum([d \in D |-> d.value])
  BY DEF Worth, Valued
<1> USE <1>0
<1> DEFINE plan == SimulateRebalance(D, targets, total)
           weight(d) == Targeted(targets, d.position)
           act == [d \in D |-> HeldAction(d, weight(d), total)]
           held == {HeldAction(d, weight(d), total) : d \in D}
           new == NewOnes(D, targets)
           aim == [d \in D |-> weight(d)]
           value == [d \in D |-> d.value]
           fresh == [i \in new |-> targets[i][2]]
           cost == [i \in new |-> total * targets[i][2]]
           buys == [d \in D |-> IF act[d].side = "BUY" THEN act[d].amount ELSE 0]
           sells == [d \in D |-> IF act[d].side = "SELL" THEN act[d].amount ELSE 0]
           extra == [d \in D |-> IF act[d].side = "SELL" THEN d.price ELSE 0]
           sold == {d \in D : act[d].side = "SELL"}
           prices == [d \in sold |-> d.price]
           less == [d \in D |-> 100 * d.value - total * weight(d)]
           gain == [d \in D |-> sells[d] + (100 * extra[d] - buys[d])]
<1>1. total \in Nat
  <2>1. value \in [D -> Nat]
    OBVIOUS
  <2> HIDE DEF value
  <2>2. Sum(value) \in Nat
    BY <2>1, SumNonNegative
  <2> QED BY <2>2 DEF value
<1>2. /\ IsFiniteSet(DOMAIN targets)
      /\ \A d \in D : weight(d) \in Nat
      /\ Sum(aim) + Sum(fresh) <= Sum(Weights(targets))
  BY WeightsAreShared
<1>3. \A d \in D : /\ act[d].symbol = d.position
                   /\ act[d].amount \in Nat
                   /\ (IF act[d].side = "SELL" THEN act[d].amount + 100 * d.price ELSE 0)
                        - (IF act[d].side = "BUY" THEN act[d].amount ELSE 0) >= 100 * d.value - total * weight(d)
  <2> SUFFICES ASSUME NEW d \in D
               PROVE  LET a == HeldAction(d, weight(d), total)
                      IN  /\ a.symbol = d.position
                          /\ a.amount \in Nat
                          /\ (IF a.side = "SELL" THEN a.amount + 100 * d.price ELSE 0)
                               - (IF a.side = "BUY" THEN a.amount ELSE 0) >= 100 * d.value - total * weight(d)
    OBVIOUS
  <2> DEFINE w == weight(d)
  <2>1. Valued(d) /\ w \in Nat
    BY <1>2 DEF Valued
  <2> HIDE DEF weight, w
  <2>2. InBalance(d, w, total, HeldAction(d, w, total))
    BY <1>1, <2>1, OneShareAtMost
  <2> QED BY <2>2 DEF InBalance, w
<1>4. \A d, e \in D : act[d] = act[e] => d = e
  <2> HIDE DEF act
  <2> QED BY <1>3
<1>5. DOMAIN act = D /\ held = {act[d] : d \in D}
  OBVIOUS
<1>6. \A d \in D : d.value \in Nat /\ d.price \in Nat /\ weight(d) \in Nat /\ total * weight(d) \in Nat
  <2>1. \A j, k \in Nat : j * k \in Nat
    OBVIOUS
  <2> HIDE DEF weight
  <2> QED BY <1>1, <1>2, <2>1
<1>7. /\ buys \in [D -> Int] /\ sells \in [D -> Int] /\ extra \in [D -> Int] /\ less \in [D -> Int]
      /\ aim \in [D -> Int] /\ value \in [D -> Int] /\ gain \in [D -> Int]
  <2>1. \A d \in D : /\ (IF act[d].side = "BUY" THEN act[d].amount ELSE 0) \in Int
                     /\ (IF act[d].side = "SELL" THEN act[d].amount ELSE 0) \in Int
                     /\ (IF act[d].side = "SELL" THEN d.price ELSE 0) \in Int
    <3> HIDE DEF act
    <3> QED BY <1>3, <1>6
  <2>2. \A d \in D : weight(d) \in Int /\ d.value \in Int /\ 100 * d.value - total * weight(d) \in Int
    <3> HIDE DEF weight
    <3> QED BY <1>6
  <2>3. buys \in [D -> Int] /\ sells \in [D -> Int] /\ extra \in [D -> Int]
    <3> HIDE DEF act
    <3> QED BY <2>1
  <2>4. less \in [D -> Int] /\ aim \in [D -> Int] /\ value \in [D -> Int]
    <3> HIDE DEF weight
    <3> QED BY <2>2
  <2>5. gain \in [D -> Int]
    <3> HIDE DEF buys, sells, extra
    <3> QED BY <2>3
  <2> QED BY <2>3, <2>4, <2>5
<1>8. Sum([a \in {h \in held : h.side = "BUY"} |-> a.amount]) = Sum(buys)
  <2>1. \A d \in D : buys[d] = IF act[d].side = "BUY" THEN act[d].amount ELSE 0
    OBVIOUS
  <2>2. Acts(D, act, held)
    <3> HIDE DEF act, held
    <3> QED BY <1>3, <1>4, <1>5 DEF Acts
  <2>3. OnOneSide(D, act, "BUY", buys)
    <3> HIDE DEF act, buys
    <3> QED BY <1>7, <2>1 DEF OnOneSide
  <2> HIDE DEF buys, act, held
  <2> QED BY ONLY <2>2, <2>3, SideAddsUp
<1>9. Sum([a \in {h \in held : h.side = "SELL"} |-> a.amount]) = Sum(sells)
  <2>1. \A d \in D : sells[d] = IF act[d].side = "SELL" THEN act[d].amount ELSE 0
    OBVIOUS
  <2>2. Acts(D, act, held)
    <3> HIDE DEF act, held
    <3> QED BY <1>3, <1>4, <1>5 DEF Acts
  <2>3. OnOneSide(D, act, "SELL", sells)
    <3> HIDE DEF act, sells
    <3> QED BY <1>7, <2>1 DEF OnOneSide
  <2> HIDE DEF sells, act, held
  <2> QED BY ONLY <2>2, <2>3, SideAddsUp
<1>10. /\ plan.held = held
       /\ plan.cash = Sum(sells) - (Sum(buys) + Sum(cost))
       /\ Sum(Weights(targets)) <= 100
  <2>1. /\ plan.held = held
        /\ plan.cash = Sum([a \in {h \in held : h.side = "SELL"} |-> a.amount])
                         - (Sum([a \in {h \in held : h.side = "BUY"} |-> a.amount]) + Sum(cost))
        /\ plan.accepted = (Sum(Weights(targets)) <= 100)
    BY DEF SimulateRebalance, NewOnes, Weights
  <2> HIDE DEF plan, held, buys, sells, cost
  <2>2. plan.accepted
    BY DEF plan
  <2> QED BY <1>8, <1>9, <2>1, <2>2
<1>11. {d \in D : \E a \in plan.held : a.symbol = d.position /\ a.side = "SELL"} = sold
  <2>1. \A d \in D : (\E a \in held : a.symbol = d.position /\ a.side = "SELL") <=> act[d].side = "SELL"
    <3> HIDE DEF act, held
    <3> QED BY <1>3, <1>5
  <2> HIDE DEF plan, held, act
  <2> QED BY <1>10, <2>1
<1>12. Sum(prices) = Sum(extra)
  <2>1. /\ sold \in SUBSET D /\ prices \in [sold -> Int] /\ (\A d \in sold : prices[d] = extra[d])
        /\ (\A d \in D \ sold : extra[d] = 0)
    <3> HIDE DEF act
    <3> QED BY <1>6
  <2> HIDE DEF prices, extra, sold
  <2>2. Padded(D, sold, extra, prices)
    BY <1>7, <2>1 DEF Padded
  <2> QED BY ONLY <2>2, PaddedSums
<1>13. fresh \in [new -> Int] /\ cost \in [new -> Int] /\ IsFiniteSet(new) /\ Sum(cost) = total * Sum(fresh)
       /\ \A i \in new : fresh[i] >= 0
  <2>1. new \in SUBSET DOMAIN targets
    BY DEF NewOnes
  <2>2. IsFiniteSet(new)
    <3> HIDE DEF new
    <3> QED BY <1>2, <2>1, FS_Subset
  <2>3. \A i \in new : targets[i][2] \in Int /\ total * targets[i][2] \in Int /\ targets[i][2] >= 0
    <3>1. \A i \in DOMAIN targets : targets[i][2] \in Int
      BY PortfolioAssumption
    <3>2. \A j, k \in Int : j * k \in Int
      OBVIOUS
    <3> HIDE DEF new
    <3> QED BY <1>1, <2>1, <3>1, <3>2
  <2>4. fresh \in [new -> Int] /\ cost \in [new -> Int] /\ (\A i \in new : cost[i] = total * fresh[i])
        /\ \A i \in new : fresh[i] >= 0
    <3> HIDE DEF new
    <3> QED BY <2>3
  <2> HIDE DEF fresh, cost, new
  <2>5. Sum(cost) = total * Sum(fresh)
    BY <1>1, <2>2, <2>4, SumScale
  <2> QED BY <2>2, <2>4, <2>5
<1> DEFINE hundred == [d \in D |-> 100 * value[d]]
           spent == [d \in D |-> (-total) * aim[d]]
           owed == [d \in D |-> 100 * extra[d]]
           unbought == [d \in D |-> (-1) * buys[d]]
           rest == [d \in D |-> owed[d] + unbought[d]]
<1>14. Sum(less) = 100 * total - total * Sum(aim)
  <2>1. /\ hundred \in [D -> Int] /\ spent \in [D -> Int] /\ \A d \in D : less[d] = hundred[d] + spent[d]
        /\ (\A d \in D : hundred[d] = 100 * value[d]) /\ (\A d \in D : spent[d] = (-total) * aim[d])
    <3>1. \A k \in Nat : (-total) * k \in Int /\ (-total) * k = -(total * k)
      BY <1>1
    <3> HIDE DEF weight
    <3> QED BY <1>1, <1>6, <3>1
  <2>2. total = Sum(value) /\ -total \in Int
    BY <1>1
  <2> HIDE DEF less, hundred, spent, value, aim
  <2>3. Sum(hundred) = 100 * Sum(value)
    <3>1. Scaled(D, 100, value, hundred)
      BY <1>1, <1>7, <2>1 DEF Scaled
    <3> QED BY <3>1, ScaledSums
  <2>4. Sum(spent) = (-total) * Sum(aim)
    <3>1. Scaled(D, -total, aim, spent)
      BY <1>1, <1>7, <2>1 DEF Scaled
    <3> QED BY <3>1, ScaledSums
  <2>5. Sum(less) = Sum(hundred) + Sum(spent)
    <3>1. Added(D, hundred, spent, less)
      BY <1>7, <2>1 DEF Added
    <3> QED BY <3>1, AddedSums
  <2>6. Sum(aim) \in Int
    BY <1>7, SumType
  <2>7. \A k \in Int : (-total) * k = -(total * k) /\ total * k \in Int
    BY <1>1
  <2> QED BY <1>1, <2>2, <2>3, <2>4, <2>5, <2>6, <2>7
<1>15. Sum(gain) = Sum(sells) + (100 * Sum(extra) - Sum(buys))
  <2>1. /\ owed \in [D -> Int] /\ unbought \in [D -> Int] /\ rest \in [D -> Int]
        /\ (\A d \in D : owed[d] = 100 * extra[d]) /\ (\A d \in D : unbought[d] = (-1) * buys[d])
        /\ (\A d \in D : rest[d] = owed[d] + unbought[d]) /\ (\A d \in D : gain[d] = sells[d] + rest[d])
    <3> HIDE DEF extra, buys, sells
    <3> QED BY <1>7
  <2> HIDE DEF owed, unbought, rest, extra, buys, sells, gain
  <2>2. Sum(owed) = 100 * Sum(extra)
    <3>1. Scaled(D, 100, extra, owed)
      BY <1>1, <1>7, <2>1 DEF Scaled
    <3> QED BY <3>1, ScaledSums
  <2>3. Sum(unbought) = (-1) * Sum(buys)
    <3>1. Scaled(D, -1, buys, unbought)
      BY <1>1, <1>7, <2>1 DEF Scaled
    <3> QED BY <3>1, ScaledSums
  <2>4. Sum(rest) = Sum(owed) + Sum(unbought)
    <3>1. Added(D, owed, unbought, rest)
      BY <1>7, <2>1 DEF Added
    <3> QED BY <3>1, AddedSums
  <2>5. Sum(gain) = Sum(sells) + Sum(rest)
    <3>1. Added(D, sells, rest, gain)
      BY <1>7, <2>1 DEF Added
    <3> QED BY <3>1, AddedSums
  <2>6. Sum(extra) \in Int /\ Sum(buys) \in Int /\ Sum(sells) \in Int
    BY <1>7, SumType
  <2> QED BY <2>2, <2>3, <2>4, <2>5, <2>6
<1>16. Sum(less) <= Sum(gain)
  <2>1. \A d \in D : less[d] <= gain[d]
    <3> HIDE DEF act, weight
    <3> QED BY <1>3, <1>6
  <2> HIDE DEF less, gain
  <2> QED BY <1>7, <2>1, SumMonotone
<1>17. Sum(prices) = Sum(extra) /\ Sum(extra) \in Int /\ Sum(buys) \in Int /\ Sum(sells) \in Int /\ Sum(aim) \in Int
       /\ Sum(fresh) \in Int
  <2> HIDE DEF extra, buys, sells, aim, fresh, prices, new
  <2> QED BY <1>7, <1>12, <1>13, SumType
<1>18. Sum(Weights(targets)) \in Int
  <2>1. Weights(targets) \in [DOMAIN targets -> Int]
    BY PortfolioAssumption DEF Weights
  <2> QED BY <1>2, <2>1, SumType
<1> HIDE DEF prices, extra, buys, sells, aim, fresh, cost, less, gain, plan, weight, act, held, new, value
<1>19. Sum(aim) + Sum(fresh) <= 100
  BY <1>2, <1>10, <1>17, <1>18
<1>20. total * Sum(aim) + total * Sum(fresh) <= 100 * total /\ total * Sum(aim) \in Int /\ total * Sum(fresh) \in Int
  <2>1. \A x, y \in Int : x + y <= 100 => total * x + total * y <= 100 * total /\ total * x \in Int /\ total * y \in Int
    <3> SUFFICES ASSUME NEW x \in Int, NEW y \in Int, x + y <= 100
                 PROVE  total * x + total * y <= 100 * total /\ total * x \in Int /\ total * y \in Int
      OBVIOUS
    <3>1. total * x + total * y = total * (x + y)
      BY <1>1
    <3>2. total * (x + y) <= total * 100
      <4>1. \A j, k \in Int : j <= k => total * j <= total * k
        BY <1>1
      <4> QED BY <4>1
    <3> QED BY <1>1, <3>1, <3>2
  <2> QED BY <1>17, <1>19, <2>1
<1>21. plan.cash + 100 * Sum(prices) >= 0
  BY <1>1, <1>10, <1>13, <1>14, <1>15, <1>16, <1>17, <1>20
<1> QED BY <1>11, <1>21 DEF prices, plan

(* Summary, sectors, history and plan tell one story, for any positions,    *)
(* prices and plans (portfolio_service.go, rebalance.go).                   *)
THEOREM ReportsAgreeAlways == Spec => []ReportsAgree
<1>1. Books => ReportsAgree
  <2> SUFFICES ASSUME Books, NEW u \in Users, NEW fetched \in BOOLEAN
               PROVE  LET s == GetPortfolioSummary(u, fetched)
                          sectors == ComputeSectorWeights(s.positions)
                          history == GetPnLHistory(u, 0, clock)
                          end == IF history = <<>> THEN 0 ELSE history[Len(history)].cumulative
                      IN  /\ s.value = Sum([x \in sectors |-> x.value])
                          /\ s.unrealized = Sum([x \in sectors |-> x.unrealized])
                          /\ ~fetched => \A d \in s.positions : 2 * Size(d.unrealized) <= d.quantity
                          /\ end = SumRealizedPnLByUser(u)
                          /\ s.realized = IF s.positions = {} THEN 0 ELSE end
                          /\ \A targets \in Plans :
                               LET plan == SimulateRebalance(s.positions, targets, s.value)
                                   sold == {d \in s.positions : \E a \in plan.held :
                                              a.symbol = d.position /\ a.side = "SELL"}
                               IN  plan.accepted /\ (\A i \in DOMAIN targets : targets[i][2] >= 0) =>
                                     plan.cash + 100 * Sum([d \in sold |-> d.price]) >= 0
    BY DEF ReportsAgree
  <2> DEFINE s == GetPortfolioSummary(u, fetched)
             D == Detailed(u, fetched)
             sectors == ComputeSectorWeights(D)
  <2>1. BookInv /\ RecordInv /\ DatesApart
    BY DEF Books
  <2>2. /\ IsFiniteSet(D)
        /\ \A d, e \in D : d.position = e.position => d = e
        /\ \A d \in D : /\ d.price \in Nat /\ d.quantity \in Nat /\ d.quantity > 0
                        /\ d.value \in Nat /\ d.value = d.price * d.quantity /\ d.unrealized \in Int
        /\ ~fetched => \A d \in D : 2 * Size(d.unrealized) <= d.quantity
    BY <2>1, DetailsAre
  <2>3. /\ s.positions = D /\ s.value = Sum([d \in D |-> d.value]) /\ s.unrealized = Sum([d \in D |-> d.unrealized])
        /\ s.realized = IF D = {} THEN 0 ELSE SumRealizedPnLByUser(u)
    BY DEF Detailed, GetPortfolioSummary
  <2> HIDE DEF D, s
  <2>4. /\ Sum([d \in D |-> d.value]) = Sum([x \in sectors |-> x.value])
        /\ Sum([d \in D |-> d.unrealized]) = Sum([x \in sectors |-> x.unrealized])
    BY <2>2, SectorsDivide
  <2>5. LET history == GetPnLHistory(u, 0, clock)
        IN  (IF history = <<>> THEN 0 ELSE history[Len(history)].cumulative) = SumRealizedPnLByUser(u)
    BY <2>1, HistoryEnds
  <2>6. \A targets \in Plans :
          LET plan == SimulateRebalance(D, targets, s.value)
              sold == {d \in D : \E a \in plan.held : a.symbol = d.position /\ a.side = "SELL"}
          IN  plan.accepted /\ (\A i \in DOMAIN targets : targets[i][2] >= 0) =>
                plan.cash + 100 * Sum([d \in sold |-> d.price]) >= 0
    <3> DEFINE total == s.value
    <3>1. Worth(D, total)
      BY <2>2, <2>3 DEF Worth, Valued
    <3> HIDE DEF total
    <3>2. \A targets \in Plans : Pays(D, targets, total)
      BY <3>1, PlanPays
    <3> QED BY <3>2 DEF Pays, total
  <2> QED BY <2>2, <2>3, <2>4, <2>5, <2>6 DEF s
<1> QED BY <1>1, AlwaysBooks, PTL

-----------------------------------------------------------------------------
(* What a trade leaves in the row. *)

(* What all lots of a position say, the closed ones too.                    *)
Whole(p) ==
  [quantity |-> Sum([l \in LotsOf(p) |-> lots[l].remaining]),
   cost |-> Sum([l \in LotsOf(p) |-> lots[l].remaining * lots[l].price])]

(* A closed lot adds nothing to a position. *)
LEMMA ShownIsWhole ==
  ASSUME TypeInv, NEW p \in Positions
  PROVE  Shown(p) = Whole(p)
<1> DEFINE S == LotsOf(p)
           L == ListActiveLots(p)
           T == DOMAIN L
           f == [l \in S |-> lots[l].remaining]
           g == [l \in T |-> L[l].remaining]
           fc == [l \in S |-> lots[l].remaining * lots[l].price]
           gc == [l \in T |-> L[l].price * L[l].remaining]
<1>1. IsFiniteSet(DOMAIN lots) /\ \A l \in DOMAIN lots : lots[l] \in FifoLot
  BY ActiveLots, LotFields
<1>2. IsFiniteSet(S)
  <2>1. S \in SUBSET DOMAIN lots
    BY DEF LotsOf
  <2> HIDE DEF S
  <2> QED BY <1>1, <2>1, FS_Subset
<1>3. T = {l \in S : lots[l].remaining > 0} /\ \A l \in T : L[l] = lots[l]
  BY DEF ListActiveLots, LotsOf
<1>4. \A l \in S : lots[l].remaining \in Nat /\ lots[l].price \in Nat
  BY <1>1 DEF LotsOf, FifoLot
<1>5. \A l \in S \ T : lots[l].remaining = 0
  BY <1>3, <1>4
<1>6. \A a \in Nat, b \in Nat : a * b \in Int /\ a * b = b * a /\ 0 * a = 0
  OBVIOUS
<1>7. Sum(f) = Sum(g)
  <2> HIDE DEF S, T
  <2>1. Padded(S, T, f, g)
    BY <1>2, <1>3, <1>4, <1>5 DEF Padded
  <2> HIDE DEF f, g
  <2> QED BY ONLY <2>1, PaddedSums
<1>8. Sum(fc) = Sum(gc)
  <2> HIDE DEF S, T
  <2>1. T \subseteq S
    BY <1>3
  <2>2. \A l \in S : lots[l].remaining * lots[l].price \in Int
    BY <1>4, <1>6
  <2>3. \A l \in T : L[l].price * L[l].remaining = lots[l].remaining * lots[l].price
    BY <1>3, <1>4, <1>6, <2>1
  <2>4. \A l \in S \ T : lots[l].remaining * lots[l].price = 0
    BY <1>4, <1>5, <1>6
  <2>5. fc \in [S -> Int] /\ gc \in [T -> Int]
    BY <2>1, <2>2, <2>3
  <2>6. Padded(S, T, fc, gc)
    BY <1>2, <2>1, <2>3, <2>4, <2>5 DEF Padded
  <2> HIDE DEF fc, gc
  <2> QED BY ONLY <2>6, PaddedSums
<1>9. Shown(p) = [quantity |-> Sum(g), cost |-> Sum(gc)]
  BY DEF Shown, RecalculatePositionFromLots, Remaining
<1> QED BY <1>7, <1>8, <1>9 DEF Whole

(* Only the write of the aggregates ends a trade well. *)
LEMMA EndsByWriting ==
  ASSUME IInv, Next, NEW t \in Trades, pc[t] # "ok", pc'[t] = "ok"
  PROVE  WriteAggregates(t) /\ order' = order
<1> USE DEF IInv
<1>1. ASSUME NEW S \in SUBSET Trades, Stop(S)
      PROVE  FALSE
  BY <1>1 DEF Stop
<1>2. ASSUME NEW u \in Trades, Book(u)
      PROVE  WriteAggregates(t)
  <2>1. PICK next : /\ pc' = [pc EXCEPT ![u] = next]
                    /\ next = "ok" => WriteAggregates(u)
    <3>1. CASE UpdateLot(u)
      <4>1. PICK g \in legs[u] : pc' = [pc EXCEPT ![u] = IF legs[u] = {g} THEN "list" ELSE "record"]
        BY <3>1 DEF UpdateLot, Goto
      <4> QED
        BY <4>1
    <3>2. CASE ~UpdateLot(u)
      BY <1>2, <3>2 DEF Book, UpsertForBuy, CreateLot, RefuseSale, MatchLots, RecordPnL, ListLots,
         WriteAggregates, Start, Goto
    <3> QED
      BY <3>1, <3>2
  <2> QED
    BY <2>1 DEF Shape
<1> QED
  BY <1>1, <1>2 DEF Next, Fail, Crash

(* What it writes is what the lots still say. *)
LEMMA EndsWithItsRead ==
  ASSUME IInv, Next, NEW t \in Trades, pc[t] # "ok", pc'[t] = "ok", t \notin stale
  PROVE  positions'[Position(t)] = Shown(Position(t)) /\ lots' = lots
<1>1. WriteAggregates(t) /\ order' = order
  BY EndsByWriting
<1>2. positions'[Position(t)] = seen[t]
  BY <1>1, OrderTyped DEF WriteAggregates, UpdatePositionAggregates, Shape, IInv
<1>3. seen[t] = Shown(Position(t))
  BY <1>1 DEF WriteAggregates, ReadIsFresh, IInv
<1> QED BY <1>1, <1>2, <1>3 DEF WriteAggregates

(* A trade that ends well and was not overtaken leaves in the row what all  *)
(* lots of the position say, whatever was there before                      *)
(* (portfolio_service.go:125-133).                                          *)
THEOREM RecalculationRepairsAlways == Spec => RecalculationRepairs
<1> DEFINE Ends ==
      \A t \in Trades : pc[t] # "ok" /\ pc'[t] = "ok" /\ t \notin stale =>
         positions'[Position(t)] =
           [quantity |-> Sum([l \in LotsOf(Position(t)) |-> lots'[l].remaining]),
            cost |-> Sum([l \in LotsOf(Position(t)) |-> lots'[l].remaining * lots'[l].price])]
<1>1. Books /\ [Next]_vars => Ends
  <2> SUFFICES ASSUME Books, [Next]_vars, NEW t \in Trades, pc[t] # "ok", pc'[t] = "ok", t \notin stale
               PROVE  positions'[Position(t)] =
                        [quantity |-> Sum([l \in LotsOf(Position(t)) |-> lots'[l].remaining]),
                         cost |-> Sum([l \in LotsOf(Position(t)) |-> lots'[l].remaining * lots'[l].price])]
    OBVIOUS
  <2>1. Next /\ IInv /\ TypeInv /\ Position(t) \in Positions
    <3>1. Next
      BY DEF vars
    <3>2. IInv /\ TypeInv /\ order \in Scenarios
      BY DEF Books, BookInv, TypeInv, TypeOK, StoreTypeOK
    <3> QED BY <3>1, <3>2, Orders
  <2>2. positions'[Position(t)] = Shown(Position(t)) /\ lots' = lots
    BY <2>1, EndsWithItsRead
  <2>3. Shown(Position(t)) = Whole(Position(t))
    BY <2>1, ShownIsWhole
  <2> QED BY <2>2, <2>3 DEF Whole
<1>2. Books /\ [Next]_vars => [Ends]_vars
  BY <1>1
<1> QED BY <1>2, AlwaysBooks, PTL DEF Spec, RecalculationRepairs

-----------------------------------------------------------------------------
(* Lots and the trades that bought them. *)

(* A lot is known by the time of its buy, and has its price and quantity.   *)
LotsSigned ==
  /\ \A l \in DOMAIN lots :
       LET t == lots[l].trade
       IN  /\ order[t].type = "BUY" /\ at[t] = l /\ Position(t) = lots[l].position
           /\ lots[l].original = order[t].qty /\ lots[l].price = order[t].price
           /\ pc[t] \in {"list", "writeAggregates", "ok", "failed"}
  /\ \A t \in Trades : order[t].type = "BUY" /\ pc[t] \in {"list", "writeAggregates", "ok"} =>
       at[t] \in DOMAIN lots /\ lots[at[t]].trade = t

(* No lots at the start. *)
LEMMA SignedInit == Init => LotsSigned
<1> SUFFICES ASSUME Init PROVE LotsSigned
  OBVIOUS
<1>1. DOMAIN lots = {} /\ \A t \in Trades : pc[t] = "new"
  BY DEF Init
<1> QED BY <1>1 DEF LotsSigned

(* What a step of a trade does to times and statements. *)
LEMMA Pace ==
  ASSUME IInv, TypeInv, MatchInv, NEW t \in Trades, Book(t)
  PROVE  /\ \A u \in Trades \ {t} : pc'[u] = pc[u] /\ at'[u] = at[u]
         /\ \/ /\ at'[t] = at[t] /\ pc[t] # "new" /\ pc'[t] # "new" /\ pc'[t] # "createLot"
               /\ clock' = clock
               /\ pc'[t] \in {"list", "writeAggregates", "ok"} =>
                    CreateLot(t) \/ UpdateLot(t) \/ pc[t] \in {"list", "writeAggregates", "ok"}
            \/ /\ pc[t] = "new" /\ pc'[t] \in {"createLot", "record"}
               /\ at'[t] = clock + 1 /\ clock' = clock + 1
               /\ pc'[t] = "createLot" => order[t].type = "BUY" /\ UpsertForBuy(t)
               /\ pc'[t] = "record" => order[t].type = "SELL" /\ MatchLots(t)
            \/ RefuseSale(t) /\ at'[t] = at[t] /\ pc'[t] = "refused" /\ clock' = clock
<1>t. pc \in [Trades -> PC] /\ at \in [Trades -> Nat]
  BY DEF TypeInv, TypeOK
<1>1. CASE UpsertForBuy(t)
  BY <1>t, <1>1 DEF UpsertForBuy, Start, Goto
<1>2. CASE MatchLots(t)
  BY <1>t, <1>2 DEF MatchLots, Start, Goto
<1>3. CASE RefuseSale(t)
  BY <1>t, <1>3 DEF RefuseSale, Goto, tables
<1>4. CASE CreateLot(t) \/ RecordPnL(t) \/ ListLots(t) \/ WriteAggregates(t)
  BY <1>t, <1>4 DEF CreateLot, RecordPnL, ListLots, WriteAggregates, Goto, tables
<1>5. CASE UpdateLot(t)
  <2>1. /\ \A u \in Trades \ {t} : pc'[u] = pc[u]
        /\ pc[t] = "update" /\ pc'[t] \in {"list", "record"}
    BY <1>5, UpdateOK
  <2>2. at' = at /\ clock' = clock
    BY <1>5 DEF UpdateLot
  <2> QED BY <1>5, <2>1, <2>2
<1> QED BY <1>1, <1>2, <1>3, <1>4, <1>5 DEF Book

(* A lot is written by its buy, with the time the buy took, *)
LEMMA SignedBook ==
  ASSUME IInv, BookInv, DatesApart, LotsSigned, NEW t \in Trades, Book(t), order' = order
  PROVE  LotsSigned'
<1>i. TypeInv /\ MatchInv
  BY DEF BookInv
<1>l. \A l \in DOMAIN lots : lots[l] \in FifoLot /\ lots[l].trade \in Trades
  BY <1>i, LotFields DEF FifoLot
<1>p. \A u : Position(u)' = Position(u)
  BY DEF Position
<1>1. CASE CreateLot(t)
  <2>1. /\ pc[t] = "createLot" /\ lots' = CreateFifoLot(t, at[t]) /\ at' = at
        /\ pc' = [pc EXCEPT ![t] = "list"] /\ order[t].type = "BUY"
    BY <1>1, <1>i DEF CreateLot, Goto, TypeInv
  <2>2. at[t] \notin DOMAIN lots
    BY <2>1 DEF DatesApart
  <2>3. pc'[t] = "list" /\ \A u \in Trades \ {t} : pc'[u] = pc[u]
    BY <2>1, <1>i DEF TypeInv, TypeOK
  <2>4. /\ DOMAIN lots' = DOMAIN lots \cup {at[t]}
        /\ \A l \in DOMAIN lots : lots'[l] = lots[l]
        /\ lots'[at[t]].trade = t /\ lots'[at[t]].position = Position(t)
        /\ lots'[at[t]].price = order[t].price /\ lots'[at[t]].original = order[t].qty
    BY <2>1, <2>2 DEF CreateFifoLot, Position
  <2>5. \A l \in DOMAIN lots : lots[l].trade # t
    BY <2>1 DEF LotsSigned
  <2>6. ASSUME NEW l \in DOMAIN lots'
        PROVE  LET u == lots'[l].trade
               IN  /\ order[u].type = "BUY" /\ at[u] = l /\ Position(u) = lots'[l].position
                   /\ lots'[l].original = order[u].qty /\ lots'[l].price = order[u].price
                   /\ pc'[u] \in {"list", "writeAggregates", "ok", "failed"}
    <3>1. CASE l = at[t]
      BY <3>1, <2>1, <2>3, <2>4
    <3>2. CASE l # at[t]
      BY <3>2, <1>l, <2>3, <2>4, <2>5 DEF LotsSigned
    <3> QED BY <3>1, <3>2
  <2>7. ASSUME NEW u \in Trades, order[u].type = "BUY", pc'[u] \in {"list", "writeAggregates", "ok"}
        PROVE  at[u] \in DOMAIN lots' /\ lots'[at[u]].trade = u
    <3>1. CASE u = t
      BY <3>1, <2>4
    <3>2. CASE u # t
      BY <3>2, <2>3, <2>4, <2>7 DEF LotsSigned
    <3> QED BY <3>1, <3>2
  <2> QED BY <1>p, <2>1, <2>6, <2>7 DEF LotsSigned
<1>2. CASE ~CreateLot(t)
  <2>1. /\ DOMAIN lots' = DOMAIN lots
        /\ \A l \in DOMAIN lots : /\ lots'[l].trade = lots[l].trade /\ lots'[l].position = lots[l].position
                                  /\ lots'[l].original = lots[l].original /\ lots'[l].price = lots[l].price
    <3>1. CASE UpdateLot(t)
      <4>1. PICK g \in legs[t] : /\ DOMAIN lots' = DOMAIN lots /\ g.lot \in DOMAIN lots
                                 /\ lots'[g.lot] = [lots[g.lot] EXCEPT !.remaining = g.left]
                                 /\ \A l \in DOMAIN lots : l # g.lot => lots'[l] = lots[l]
        BY <1>i, <3>1, UpdateOK
      <4>2. lots[g.lot] \in FifoLot
        BY <1>l, <4>1
      <4>3. /\ lots'[g.lot].trade = lots[g.lot].trade /\ lots'[g.lot].position = lots[g.lot].position
            /\ lots'[g.lot].original = lots[g.lot].original /\ lots'[g.lot].price = lots[g.lot].price
        BY <4>1, <4>2 DEF FifoLot
      <4> QED BY <4>1, <4>3
    <3>2. CASE ~UpdateLot(t)
      BY <1>2, <3>2 DEF Book, UpsertForBuy, RefuseSale, MatchLots, RecordPnL, ListLots, WriteAggregates, tables
    <3> QED BY <3>1, <3>2
  <2>2. UpdateLot(t) => order[t].type = "SELL"
    <3> SUFFICES ASSUME UpdateLot(t) PROVE order[t].type = "SELL"
      OBVIOUS
    <3>1. pc[t] = "update"
      BY DEF UpdateLot
    <3> QED BY <1>i, <3>1 DEF MatchInv
  <2>3. ASSUME NEW u \in Trades, order[u].type = "BUY",
               pc[u] \in {"list", "writeAggregates", "ok", "failed"}
        PROVE  at'[u] = at[u] /\ pc'[u] \in {"list", "writeAggregates", "ok", "failed"}
    <3>1. CASE u # t
      BY <1>i, <2>3, <3>1, Pace
    <3>2. CASE u = t
      <4>1. ~UpsertForBuy(t) /\ ~RefuseSale(t) /\ ~MatchLots(t) /\ ~RecordPnL(t) /\ ~UpdateLot(t)
        BY <2>3, <3>2 DEF UpsertForBuy, RefuseSale, MatchLots, RecordPnL, UpdateLot, Start
      <4>2. ListLots(t) \/ WriteAggregates(t)
        BY <1>2, <4>1 DEF Book
      <4> QED BY <1>i, <3>2, <4>2 DEF ListLots, WriteAggregates, Goto, tables, TypeInv, TypeOK
    <3> QED BY <3>1, <3>2
  <2>4. ASSUME NEW u \in Trades, order[u].type = "BUY", pc'[u] \in {"list", "writeAggregates", "ok"}
        PROVE  at'[u] = at[u] /\ pc[u] \in {"list", "writeAggregates", "ok"}
    <3>1. CASE u # t
      BY <1>i, <2>4, <3>1, Pace
    <3>2. CASE u = t
      <4>1. at'[t] = at[t] /\ (UpdateLot(t) \/ pc[t] \in {"list", "writeAggregates", "ok"})
        BY <1>i, <1>2, <2>4, <3>2, Pace
      <4> QED BY <2>2, <2>4, <3>2, <4>1
    <3> QED BY <3>1, <3>2
  <2>5. ASSUME NEW l \in DOMAIN lots'
        PROVE  LET u == lots'[l].trade
               IN  /\ order[u].type = "BUY" /\ at'[u] = l /\ Position(u) = lots'[l].position
                   /\ lots'[l].original = order[u].qty /\ lots'[l].price = order[u].price
                   /\ pc'[u] \in {"list", "writeAggregates", "ok", "failed"}
    <3>1. l \in DOMAIN lots /\ lots[l].trade \in Trades
      BY <1>l, <2>1
    <3>2. LET u == lots[l].trade
          IN  /\ order[u].type = "BUY" /\ at[u] = l /\ Position(u) = lots[l].position
              /\ lots[l].original = order[u].qty /\ lots[l].price = order[u].price
              /\ pc[u] \in {"list", "writeAggregates", "ok", "failed"}
      BY <3>1 DEF LotsSigned
    <3> QED BY <2>1, <2>3, <3>1, <3>2
  <2>6. ASSUME NEW u \in Trades, order[u].type = "BUY", pc'[u] \in {"list", "writeAggregates", "ok"}
        PROVE  at'[u] \in DOMAIN lots' /\ lots'[at'[u]].trade = u
    BY <2>1, <2>4, <2>6 DEF LotsSigned
  <2> QED BY <1>p, <2>5, <2>6 DEF LotsSigned
<1> QED BY <1>1, <1>2

(* and no step changes who bought it. *)
LEMMA SignedKept ==
  ASSUME IInv, BookInv, DatesApart, LotsSigned, [Next]_vars
  PROVE  LotsSigned'
<1>1. CASE UNCHANGED vars
  BY <1>1 DEF vars, tables, LotsSigned, Position
<1>2. ASSUME NEW S \in SUBSET Trades, Stop(S), order' = order, \A t \in S : pc[t] \in Running
      PROVE  LotsSigned'
  <2>1. /\ UNCHANGED <<lots, at>>
        /\ \A u \in Trades : u \notin S => pc'[u] = pc[u]
        /\ \A u \in S : pc'[u] = "failed"
    BY <1>2, StopOK DEF BookInv
  <2>2. \A l \in DOMAIN lots : lots[l].trade \in Trades
    BY LotFields DEF BookInv, FifoLot
  <2> QED BY <1>2, <2>1, <2>2 DEF LotsSigned, Position
<1> QED BY <1>1, <1>2, SignedBook DEF Next, Fail, Crash

-----------------------------------------------------------------------------
(* Sales that nobody interfered with. *)

(* The sale was taken up; the books of the position are as they should be,  *)
(* its row excepted.                                                        *)
Took(t) == order[t].type = "SELL" /\ pc[t] \notin {"new", "refused"}
Clear(p) == off[p] \cap {"lots", "order", "part"} = {}

(* Who still takes lots of a clear position, or is to write one, came after *)
(* every sale that was taken up.                                            *)
Overtaken ==
  \A t, u \in Trades : t # u /\ Took(t) /\ Position(t) = Position(u) /\ Clear(Position(t)) =>
    /\ legs[u] # {} => at[t] < at[u]
    /\ pc[u] = "createLot" => at[t] < at[u]

(* What is marked on a position stays, the aggregates excepted. *)
LEMMA MarksStay ==
  ASSUME TypeInv, [Next]_vars, NEW p \in Positions, Clear(p)'
  PROVE  Clear(p)
<1>t. off \in [Positions -> SUBSET Troubles]
  BY DEF TypeInv, TypeOK
<1> SUFFICES off[p] \ {"aggregates"} \subseteq off'[p]
  BY DEF Clear
<1>1. CASE UNCHANGED vars
  BY <1>1 DEF vars
<1>2. ASSUME NEW S \in SUBSET Trades, Stop(S)
      PROVE  off[p] \subseteq off'[p]
  BY <1>2, StopOK
<1>3. ASSUME NEW t \in Trades, Book(t)
      PROVE  off[p] \ {"aggregates"} \subseteq off'[p]
  <2>1. CASE MatchLots(t)
    BY <1>t, <2>1 DEF MatchLots, Mark
  <2>2. CASE WriteAggregates(t)
    BY <1>t, <2>2 DEF WriteAggregates
  <2>3. CASE ~MatchLots(t) /\ ~WriteAggregates(t)
    <3>1. off' = off
      BY <1>3, <2>3 DEF Book, UpsertForBuy, CreateLot, RefuseSale, RecordPnL, UpdateLot, ListLots
    <3> QED BY <3>1
  <2> QED BY <2>1, <2>2, <2>3
<1> QED BY <1>1, <1>2, <1>3 DEF Next, Fail, Crash

(* Nobody is late at first. *)
LEMMA OvertakenInit == Init => Overtaken
<1> SUFFICES ASSUME Init PROVE Overtaken
  OBVIOUS
<1>1. \A t \in Trades : pc[t] = "new"
  BY DEF Init
<1> QED BY <1>1 DEF Overtaken, Took

(* A lot somebody is to take of has something left, and is read as active. *)
LEMMA TakenIsActive ==
  ASSUME IInv, TypeInv, MatchInv, LegsApart, NEW u \in Trades, NEW g \in legs[u],
         "lots" \notin off[Position(u)]
  PROVE  g.lot \in DOMAIN ListActiveLots(Position(u))
<1>1. g.lot \in DOMAIN lots /\ lots[g.lot].position = Position(u)
  BY DEF IInv, LegsOwn
<1>2. lots[g.lot].remaining = g.left + g.qty /\ g.qty > 0
  BY DEF LegsApart, MatchInv
<1>3. g \in FifoLeg
  BY DEF TypeInv, TypeOK
<1>4. g.left \in Nat /\ g.qty \in Nat
  BY <1>3 DEF FifoLeg
<1>5. lots[g.lot].remaining > 0
  BY <1>2, <1>4
<1> QED BY <1>1, <1>5 DEF ListActiveLots

(* A sale that leaves its position clear found nobody in its way. *)
LEMMA MatchAlone ==
  ASSUME IInv, BookInv, Conserve, NEW t \in Trades, MatchLots(t), order' = order, Clear(Position(t))'
  PROVE  /\ Clear(Position(t))
         /\ \A u \in Trades \ {t} : Position(u) = Position(t) => legs[u] = {} /\ pc[u] # "createLot"
<1> DEFINE p == Position(t)
           L == ListActiveLots(p)
<1>i. TypeInv /\ MatchInv /\ LegsApart
  BY DEF BookInv, Conserve
<1>1. off' = [off EXCEPT ![p] = @ \cup Missed(t, L)] /\ off \in [Positions -> SUBSET Troubles] /\ p \in Positions
  <2>1. off' = [off EXCEPT ![p] = @ \cup Missed(t, L)]
    BY <1>i, MatchOK
  <2>2. off \in [Positions -> SUBSET Troubles] /\ order \in Scenarios
    BY <1>i DEF TypeInv, TypeOK, StoreTypeOK
  <2> QED BY <2>1, <2>2, Orders
<1> HIDE DEF L
<1>2. off'[p] = off[p] \cup Missed(t, L) /\ Position(t)' = p
  BY <1>1 DEF Position
<1>3. Clear(p) /\ Missed(t, L) \cap {"lots", "order"} = {}
  BY <1>2 DEF Clear
<1>4. ASSUME NEW u \in Trades \ {t}, Position(u) = p
      PROVE  legs[u] = {} /\ pc[u] # "createLot"
  <2>0. u \in Others(t)
    BY <1>4 DEF Others
  <2>1. pc[u] # "createLot"
    BY <1>3, <2>0 DEF Missed
  <2>2. ASSUME NEW g \in legs[u]
        PROVE  FALSE
    <3>1. "lots" \notin off[Position(u)]
      BY <1>3, <1>4 DEF Clear
    <3>2. g.lot \in DOMAIN L
      BY <1>i, <1>4, <3>1, TakenIsActive DEF L
    <3> QED BY <1>3, <2>0, <3>2 DEF Missed
  <2> QED BY <2>1, <2>2
<1> QED BY <1>3, <1>4

(* A step of a trade overtakes nobody on a position that stays clear, *)
LEMMA OvertakenBook ==
  ASSUME IInv, BookInv, Conserve, DatesApart, Overtaken, NEW v \in Trades, Book(v), order' = order
  PROVE  Overtaken'
<1>i. TypeInv /\ MatchInv /\ (\A u \in Trades : at[u] <= clock) /\ clock \in Nat /\ at \in [Trades -> Nat]
  BY DEF BookInv, DatesApart, TypeInv, TypeOK, StoreTypeOK
<1>p. order \in Scenarios /\ [Next]_vars
  <2>1. [Next]_vars
    BY DEF Next
  <2> QED BY <1>i, <2>1 DEF TypeInv, TypeOK, StoreTypeOK
<1> SUFFICES ASSUME NEW t \in Trades, NEW u \in Trades, t # u, Took(t)', Position(t) = Position(u),
                    Clear(Position(t))'
             PROVE  /\ legs'[u] # {} => at'[t] < at'[u]
                    /\ pc'[u] = "createLot" => at'[t] < at'[u]
  BY DEF Overtaken, Position
<1>c. Position(t) \in Positions /\ Clear(Position(t))
  <2>1. Position(t) \in Positions
    BY <1>p, Orders
  <2>2. Position(t)' = Position(t)
    BY DEF Position
  <2> QED BY <1>i, <1>p, <2>1, <2>2, MarksStay DEF Clear
<1>0. \A w \in Trades \ {v} : pc'[w] = pc[w] /\ at'[w] = at[w]
  BY <1>i, Pace
<1>1. CASE MatchLots(v)
  <2>1. at'[v] = clock + 1 /\ pc[v] = "new" /\ pc'[v] = "record" /\ \A w \in Trades \ {v} : legs'[w] = legs[w]
    <3>1. pc[v] = "new" /\ pc'[v] = "record" /\ \A w \in Trades \ {v} : legs'[w] = legs[w]
      BY <1>1, <1>i, MatchOK
    <3> QED BY <3>1, <1>i, Pace
  <2>2. CASE t = v
    <3>1. legs[u] = {} /\ pc[u] # "createLot"
      BY <1>1, <2>2, MatchAlone
    <3> QED BY <1>0, <2>1, <2>2, <3>1
  <2>3. CASE u = v
    BY <1>0, <1>i, <2>1, <2>3
  <2>4. CASE t # v /\ u # v
    BY <1>0, <1>c, <2>1, <2>4 DEF Overtaken, Took
  <2> QED BY <2>2, <2>3, <2>4
<1>2. CASE UpsertForBuy(v)
  <2>1. at'[v] = clock + 1 /\ legs' = legs /\ order[v].type = "BUY" /\ pc[v] = "new" /\ pc'[v] = "createLot"
    BY <1>2, <1>i DEF UpsertForBuy, Start, Goto, TypeInv, TypeOK
  <2>2. t # v
    BY <2>1 DEF Took
  <2>3. CASE u = v
    BY <1>0, <1>i, <2>1, <2>2, <2>3
  <2>4. CASE u # v
    BY <1>0, <1>c, <2>1, <2>2, <2>4 DEF Overtaken, Took
  <2> QED BY <2>3, <2>4
<1>3. CASE ~MatchLots(v) /\ ~UpsertForBuy(v)
  <2>1. at'[v] = at[v] /\ pc'[v] # "createLot"
    BY <1>i, <1>3, Pace
  <2>2. Took(v)' => Took(v)
    <3>1. pc[v] = "new" => pc'[v] = "refused"
      BY <1>i, <1>3, Pace
    <3>2. pc[v] # "refused"
      BY <1>3 DEF Book, CreateLot, RefuseSale, RecordPnL, UpdateLot, ListLots, WriteAggregates
    <3> QED BY <3>1, <3>2 DEF Took
  <2>3. Took(t)
    BY <1>0, <2>2 DEF Took
  <2>4. legs'[u] # {} => legs[u] # {}
    <3>1. CASE UpdateLot(v)
      BY <1>i, <3>1, UpdateOK
    <3>2. CASE ~UpdateLot(v)
      <4>1. legs' = legs
        BY <1>3, <3>2 DEF Book, CreateLot, RefuseSale, RecordPnL, ListLots, WriteAggregates
      <4> QED BY <4>1
    <3> QED BY <3>1, <3>2
  <2>5. pc'[u] = "createLot" => pc[u] = "createLot"
    BY <1>0, <2>1
  <2>6. at'[t] = at[t] /\ at'[u] = at[u]
    BY <1>0, <2>1
  <2> QED BY <1>c, <2>3, <2>4, <2>5, <2>6 DEF Overtaken
<1> QED BY <1>1, <1>2, <1>3

(* nor does any step. *)
LEMMA OvertakenKept ==
  ASSUME IInv, BookInv, Conserve, DatesApart, Overtaken, [Next]_vars
  PROVE  Overtaken'
<1>1. CASE UNCHANGED vars
  BY <1>1 DEF vars, Overtaken, Took, Clear, Position
<1>2. ASSUME NEW S \in SUBSET Trades, Stop(S), order' = order, \A t \in S : pc[t] \in Running
      PROVE  Overtaken'
  <2>i. TypeInv /\ order \in Scenarios
    BY DEF BookInv, TypeInv, TypeOK, StoreTypeOK
  <2>1. /\ UNCHANGED at
        /\ \A u \in Trades : u \notin S => pc'[u] = pc[u] /\ legs'[u] = legs[u]
        /\ \A u \in S : pc'[u] = "failed" /\ legs'[u] = {}
        /\ \A p \in Positions : off[p] \subseteq off'[p]
    BY <1>2, <2>i, StopOK
  <2>2. \A u \in Trades : Took(u)' => Took(u)
    BY <1>2, <2>1 DEF Took, Running
  <2>3. \A u \in Trades : Position(u)' = Position(u) /\ Position(u) \in Positions
    BY <1>2, <2>i, Orders DEF Position
  <2>4. \A p \in Positions : Clear(p)' => Clear(p)
    BY <2>1 DEF Clear
  <2> SUFFICES ASSUME NEW t \in Trades, NEW u \in Trades, t # u, Took(t)', Position(t) = Position(u),
                      Clear(Position(t))'
               PROVE  /\ legs'[u] # {} => at'[t] < at'[u]
                      /\ pc'[u] = "createLot" => at'[t] < at'[u]
    BY <2>3 DEF Overtaken
  <2>5. Took(t) /\ Clear(Position(t))
    BY <2>2, <2>3, <2>4 DEF Clear
  <2>6. /\ legs'[u] # {} => legs[u] # {}
        /\ pc'[u] = "createLot" => pc[u] = "createLot"
    BY <2>1
  <2> QED BY <2>1, <2>5, <2>6 DEF Overtaken
<1> QED BY <1>1, <1>2, OvertakenBook DEF Next, Fail, Crash

-----------------------------------------------------------------------------
(* What a sale found. *)

(* What a lot held at an instant: what was bought less the rows of before.  *)
SoldBefore(d, l) == {r \in pnls : r.lot = l /\ r.at < d}
Held(d, l) == lots[l].original - Sold(SoldBefore(d, l))

(* A sale's share of a lot that is older than it, first in, first out: what *)
(* it wants after the still older lots, and no more than the lot held.      *)
Older(t) == {l \in LotsOf(Position(t)) : l < at[t]}
Wants(t, l) == order[t].qty - Sum([k \in {m \in Older(t) : m < l} |-> Held(at[t], k)])
Share(t, l) == IF Wants(t, l) <= 0 THEN 0 ELSE Smaller(Held(at[t], l), Wants(t, l))

(* The rows of a sale and the legs it has left to book are its shares. *)
Fifo(t) ==
  /\ \A r \in pnls : r.trade = t => r.lot < at[t] /\ r.quantity = Share(t, r.lot)
  /\ \A g \in legs[t] : g.lot < at[t] /\ g.qty = Share(t, g.lot)
  /\ \A l \in Older(t) :
       /\ Held(at[t], l) >= 0
       /\ Share(t, l) # 0 => (\E r \in pnls : r.trade = t /\ r.lot = l) \/ (\E g \in legs[t] : g.lot = l)

Matching == \A t \in Trades : Took(t) /\ Clear(Position(t)) => Fifo(t)

(* No sale was taken up. *)
LEMMA MatchingInit == Init => Matching
<1> SUFFICES ASSUME Init PROVE Matching
  OBVIOUS
<1>1. \A t \in Trades : pc[t] = "new"
  BY DEF Init
<1> QED BY <1>1 DEF Matching, Took

(* The share is the same while older lots and their rows are. *)
LEMMA SameShare ==
  ASSUME NEW t, order' = order, at'[t] = at[t], Older(t)' = Older(t),
         \A l \in Older(t) : lots'[l].original = lots[l].original /\ SoldBefore(at[t], l)' = SoldBefore(at[t], l)
  PROVE  \A l \in Older(t) : Held(at[t], l)' = Held(at[t], l) /\ Share(t, l)' = Share(t, l)
<1>1. \A l \in Older(t) : Held(at[t], l)' = Held(at[t], l)
  BY DEF Held, Sold
<1>2. ASSUME NEW l \in Older(t)
      PROVE  Wants(t, l)' = Wants(t, l)
  <2> DEFINE D == {m \in Older(t) : m < l}
             E == {m \in Older(t)' : m < l}
             f == [k \in D |-> Held(at[t], k)]
             e == [k \in E |-> Held(at[t], k)']
  <2>1. D = E
    OBVIOUS
  <2>2. \A k \in D : Held(at[t], k)' = Held(at[t], k)
    BY <1>1
  <2>3. f = e
    BY <2>1, <2>2
  <2>4. Wants(t, l) = order[t].qty - Sum(f) /\ Wants(t, l)' = order'[t].qty - Sum(e)
    BY DEF Wants
  <2> QED BY <2>3, <2>4
<1>3. \A l \in Older(t) : Share(t, l)' = Share(t, l)
  BY <1>1, <1>2 DEF Share
<1> QED BY <1>1, <1>3

(* Who comes later neither adds an older lot nor takes of one before. *)
LEMMA LaterKeeps ==
  ASSUME IInv, BookInv, Conserve, DatesApart, Overtaken, NEW v \in Trades, Book(v), order' = order,
         NEW t \in Trades, Took(t), Clear(Position(t))
  PROVE  /\ at'[t] = at[t] /\ Took(t)' /\ Older(t)' = Older(t)
         /\ \A l \in Older(t) : lots'[l].original = lots[l].original /\ SoldBefore(at[t], l)' = SoldBefore(at[t], l)
<1>i. TypeInv /\ MatchInv /\ [Next]_vars
  BY DEF BookInv, Next
<1>l. \A l \in DOMAIN lots : /\ l \in DOMAIN lots' /\ lots'[l].position = lots[l].position
                             /\ lots'[l].original = lots[l].original
  BY <1>i, LotsKeep
<1>0. \A w \in Trades \ {v} : pc'[w] = pc[w] /\ at'[w] = at[w]
  BY <1>i, Pace
<1>1. at'[t] = at[t] /\ Took(t)'
  <2>1. CASE v = t
    <3>1. pc[t] \notin {"new", "refused"}
      BY DEF Took
    <3>2. at'[t] = at[t] /\ pc'[t] # "new" /\ ~RefuseSale(t)
      BY <1>i, <2>1, <3>1, Pace DEF RefuseSale
    <3>3. pc'[t] # "refused"
      <4>1. pc \in [Trades -> PC]
        BY <1>i DEF TypeInv, TypeOK
      <4>2. CASE UpdateLot(t)
        BY <1>i, <4>2, UpdateOK
      <4>3. CASE ~UpdateLot(t)
        BY <2>1, <3>2, <4>1, <4>3 DEF Book, UpsertForBuy, CreateLot, MatchLots, RecordPnL, ListLots,
                                      WriteAggregates, Goto, Start
      <4> QED BY <4>2, <4>3
    <3> QED BY <3>2, <3>3 DEF Took
  <2>2. CASE v # t
    BY <1>0, <2>2 DEF Took
  <2> QED BY <2>1, <2>2
<1>2. Older(t)' = Older(t)
  <2>1. CASE CreateLot(v)
    <3>1. DOMAIN lots' = DOMAIN lots \cup {at[v]} /\ pc[v] = "createLot" /\ at[v] \notin DOMAIN lots
          /\ lots'[at[v]].position = Position(v)
      <4>1. pc[v] = "createLot" /\ at[v] \notin DOMAIN lots
        BY <2>1 DEF CreateLot, DatesApart
      <4>2. lots' = CreateFifoLot(v, at[v])
        BY <2>1 DEF CreateLot
      <4> QED BY <4>1, <4>2 DEF CreateFifoLot, Position
    <3>2. v # t
      BY <1>i, <3>1 DEF Took, TypeInv
    <3>3. Position(v) = Position(t) => at[t] < at[v]
      BY <3>1, <3>2 DEF Overtaken
    <3>4. at[t] \in Nat /\ at[v] \in Nat
      BY <1>i DEF TypeInv, TypeOK
    <3>5. Position(t)' = Position(t)
      BY DEF Position
    <3>6. LotsOf(Position(t))' = LotsOf(Position(t)) \cup {l \in {at[v]} : Position(v) = Position(t)}
      BY <1>l, <3>1, <3>5 DEF LotsOf
    <3>7. \A l \in {at[v]} : Position(v) = Position(t) => ~(l < at[t])
      BY <3>3, <3>4
    <3> QED BY <1>1, <3>6, <3>7 DEF Older
  <2>2. CASE ~CreateLot(v)
    <3>1. DOMAIN lots' = DOMAIN lots
      <4>1. CASE UpdateLot(v)
        BY <1>i, <4>1, UpdateOK
      <4>2. CASE ~UpdateLot(v)
        BY <2>2, <4>2 DEF Book, UpsertForBuy, RefuseSale, MatchLots, RecordPnL, ListLots, WriteAggregates, tables
      <4> QED BY <4>1, <4>2
    <3>2. Position(t)' = Position(t)
      BY DEF Position
    <3>3. LotsOf(Position(t))' = LotsOf(Position(t))
      BY <1>l, <3>1, <3>2 DEF LotsOf
    <3> QED BY <1>1, <3>3 DEF Older
  <2> QED BY <2>1, <2>2
<1>3. ASSUME NEW l \in Older(t)
      PROVE  lots'[l].original = lots[l].original /\ SoldBefore(at[t], l)' = SoldBefore(at[t], l)
  <2>1. l \in DOMAIN lots /\ lots[l].position = Position(t)
    BY DEF Older, LotsOf
  <2>2. CASE RecordPnL(v)
    <3>1. PICK g \in legs[v] : pnls' = pnls \cup {Row(v, g, at[v])}
      BY <1>i, <2>2, RecordOK
    <3>2. Row(v, g, at[v]).lot = g.lot /\ Row(v, g, at[v]).at = at[v]
      BY DEF Row
    <3>3. g.lot = l => Position(v) = Position(t)
      BY <2>1 DEF IInv, LegsOwn
    <3>4. g.lot = l => v = t \/ at[t] < at[v]
      BY <3>3 DEF Overtaken
    <3>5. at[t] \in Nat /\ at[v] \in Nat
      BY <1>i DEF TypeInv, TypeOK
    <3>6. g.lot = l => ~(at[v] < at[t])
      BY <3>4, <3>5
    <3> QED BY <1>1, <1>l, <2>1, <3>1, <3>2, <3>6 DEF SoldBefore
  <2>3. CASE ~RecordPnL(v)
    <3>1. pnls' = pnls
      BY <2>3 DEF Book, UpsertForBuy, CreateLot, RefuseSale, MatchLots, UpdateLot, ListLots, WriteAggregates, tables
    <3> QED BY <1>1, <1>l, <2>1, <3>1 DEF SoldBefore
  <2> QED BY <2>2, <2>3
<1> QED BY <1>1, <1>2, <1>3

(* What a sale books is its share, whoever else trades the position. *)
LEMMA FifoKept ==
  ASSUME IInv, BookInv, Conserve, DatesApart, Overtaken, NEW v \in Trades, Book(v), order' = order,
         NEW t \in Trades, Took(t), Clear(Position(t)), Fifo(t)
  PROVE  Fifo(t)'
<1>i. TypeInv /\ MatchInv
  BY DEF BookInv
<1>1. /\ at'[t] = at[t] /\ Older(t)' = Older(t)
      /\ \A l \in Older(t) : Held(at[t], l)' = Held(at[t], l) /\ Share(t, l)' = Share(t, l)
  BY LaterKeeps, SameShare
<1>r. \A r \in pnls : r.trade = t => r.lot \in Older(t) /\ r.quantity = Share(t, r.lot)
  BY DEF Fifo, Older, LotsOf, BookInv, RowFacts, IsRow
<1>g. \A g \in legs[t] : g.lot \in Older(t) /\ g.qty = Share(t, g.lot)
  BY DEF Fifo, Older, LotsOf, IInv, LegsOwn
<1>h. \A l \in Older(t) : Held(at[t], l) >= 0
  BY DEF Fifo
<1>o. \A l \in Older(t) : l < at[t]
  BY DEF Older
<1>2. pnls \subseteq pnls' /\ \A r \in pnls' : r.trade = t => r.lot \in Older(t) /\ r.quantity = Share(t, r.lot)
  <2>1. CASE RecordPnL(v)
    <3>1. PICK g \in legs[v] : pnls' = pnls \cup {Row(v, g, at[v])}
      BY <1>i, <2>1, RecordOK
    <3>2. Row(v, g, at[v]).trade = v /\ Row(v, g, at[v]).lot = g.lot /\ Row(v, g, at[v]).quantity = g.qty
      BY DEF Row
    <3> QED BY <1>r, <1>g, <3>1, <3>2
  <2>2. CASE ~RecordPnL(v)
    <3>1. pnls' = pnls
      BY <2>2 DEF Book, UpsertForBuy, CreateLot, RefuseSale, MatchLots, UpdateLot, ListLots, WriteAggregates, tables
    <3> QED BY <1>r, <3>1
  <2> QED BY <2>1, <2>2
<1>3. /\ legs'[t] \subseteq legs[t]
      /\ \A g \in legs[t] \ legs'[t] : \E r \in pnls : r.trade = t /\ r.lot = g.lot
  <2>1. CASE v = t /\ UpdateLot(t)
    <3>1. PICK g \in legs[t] : IsNext(t, g) /\ legs'[t] = legs[t] \ {g} /\ pc[t] = "update"
      BY <1>i, <2>1, UpdateOK
    <3>2. PICK r \in pnls, h \in legs[t] : r.trade = t /\ r.lot = h.lot
      BY <3>1 DEF BookInv, RowsOrdered
    <3>3. r.lot <= g.lot /\ g.lot <= h.lot
      BY <3>1, <3>2 DEF BookInv, RowsOrdered, IsNext
    <3>4. g \in FifoLeg /\ h \in FifoLeg
      BY <1>i DEF TypeInv, TypeOK
    <3>5. g.lot \in Nat /\ h.lot \in Nat
      BY <3>4 DEF FifoLeg
    <3>6. r.lot = g.lot
      BY <3>2, <3>3, <3>5
    <3> QED BY <3>1, <3>2, <3>6
  <2>2. CASE v # t /\ UpdateLot(v)
    BY <1>i, <2>2, UpdateOK
  <2>3. CASE MatchLots(v)
    <3>1. v # t
      BY <1>i, <2>3, MatchOK DEF Took
    <3>2. legs'[t] = legs[t]
      BY <1>i, <2>3, <3>1, MatchOK
    <3> QED BY <3>2
  <2>4. CASE ~UpdateLot(v) /\ ~MatchLots(v)
    <3>1. legs' = legs
      BY <2>4 DEF Book, UpsertForBuy, CreateLot, RefuseSale, RecordPnL, ListLots, WriteAggregates
    <3> QED BY <3>1
  <2> QED BY <2>1, <2>2, <2>3, <2>4
<1>4. \A r \in pnls' : r.trade = t => r.lot < at'[t] /\ r.quantity = Share(t, r.lot)'
  BY <1>1, <1>2, <1>o
<1>5. \A g \in legs'[t] : g.lot < at'[t] /\ g.qty = Share(t, g.lot)'
  BY <1>1, <1>3, <1>g, <1>o
<1>6. ASSUME NEW l \in Older(t)'
      PROVE  /\ Held(at[t], l)' >= 0
             /\ Share(t, l)' # 0 => (\E r \in pnls' : r.trade = t /\ r.lot = l) \/ (\E g \in legs'[t] : g.lot = l)
  <2>1. l \in Older(t) /\ Held(at[t], l)' = Held(at[t], l) /\ Share(t, l)' = Share(t, l)
    BY <1>1
  <2>2. Share(t, l) # 0 => (\E r \in pnls : r.trade = t /\ r.lot = l) \/ (\E g \in legs[t] : g.lot = l)
    BY <2>1 DEF Fifo
  <2> QED BY <1>2, <1>3, <1>h, <2>1, <2>2
<1> QED BY <1>4, <1>5, <1>6 DEF Fifo

(* Alone, a sale finds in the lots what was bought less all rows of them. *)
LEMMA FoundWhatIsLeft ==
  ASSUME IInv, BookInv, Conserve, DatesApart, NEW t \in Trades, MatchLots(t), order' = order,
         Clear(Position(t))', NEW l \in LotsOf(Position(t))
  PROVE  l < at'[t] /\ Held(at[t], l)' = lots[l].remaining
<1>i. TypeInv /\ MatchInv /\ LegsApart
  BY DEF BookInv, Conserve
<1>1. Clear(Position(t)) /\ \A u \in Trades \ {t} : Position(u) = Position(t) => legs[u] = {}
  BY MatchAlone
<1>2. /\ lots' = lots /\ pnls' = pnls /\ pc[t] = "new"
      /\ at'[t] = clock + 1 /\ clock \in Nat /\ DOMAIN lots \subseteq 1..clock
  <2>1. lots' = lots /\ pnls' = pnls /\ pc[t] = "new"
    BY <1>i, MatchOK
  <2>2. at'[t] = clock + 1
    BY <1>i DEF MatchLots, Start, TypeInv, TypeOK
  <2> QED BY <2>1, <2>2, <1>i DEF TypeInv, TypeOK, StoreTypeOK
<1>3. l \in DOMAIN lots /\ lots[l].position = Position(t)
  BY DEF LotsOf
<1>4. \A r \in pnls : r.at < at'[t] /\ r.trade \in Trades
  <2>1. \A r \in pnls : r.at = at[r.trade] /\ r.at \in Nat /\ r.trade \in Trades
    BY <1>i DEF DatesApart, TypeInv, TypeOK, StoreTypeOK, RealizedPnL
  <2>2. \A r \in pnls : r.at <= clock
    BY <2>1 DEF DatesApart
  <2> QED BY <1>2, <2>1, <2>2
<1>5. CountedOn(l) = {r \in pnls : r.lot = l}
  <2>1. ASSUME NEW r \in pnls, r.lot = l, pc[r.trade] = "update"
        PROVE  FALSE
    <3>1. lots[r.lot].position = Position(r.trade) /\ r.trade \in Trades
      BY <1>4 DEF BookInv, RowFacts, IsRow
    <3>2. legs[r.trade] # {} /\ r.trade # t
      BY <1>2, <1>i, <2>1, <3>1 DEF MatchInv
    <3> QED BY <1>1, <1>3, <2>1, <3>1, <3>2
  <2> QED BY <2>1 DEF CountedOn
<1>6. SoldBefore(at[t], l)' = CountedOn(l)
  BY <1>2, <1>4, <1>5 DEF SoldBefore
<1>7. lots[l].original = lots[l].remaining + Sold(CountedOn(l))
  BY <1>1, <1>3, LotsConservedIs DEF Conserve, Clear
<1>8. Sold(CountedOn(l)) \in Nat
  BY RowSets DEF CountedOn
<1>9. Held(at[t], l)' = lots[l].original - Sold(CountedOn(l))
  BY <1>2, <1>6 DEF Held, Sold
<1>10. l < at'[t]
  BY <1>2, <1>3
<1> QED BY <1>3, <1>7, <1>8, <1>9, <1>10, <1>i, LotFields

(* ... and its match is its share of them. *)
LEMMA FifoMatch ==
  ASSUME IInv, BookInv, Conserve, DatesApart, NEW t \in Trades, MatchLots(t), order' = order,
         Clear(Position(t))'
  PROVE  Fifo(t)'
<1> DEFINE p == Position(t)
           L == ListActiveLots(p)
           qty == order[t].qty
<1>i. TypeInv
  BY DEF BookInv
<1>1. /\ lots' = lots /\ pnls' = pnls /\ pc[t] = "new" /\ legs'[t] = ComputeFifoSell(L, qty) /\ qty \in Nat
  BY <1>i, MatchOK
<1>2. Older(t)' = LotsOf(p)
  <2>1. LotsOf(Position(t))' = LotsOf(p)
    BY <1>1 DEF LotsOf, Position
  <2>2. \A l \in LotsOf(p) : l < at'[t]
    BY FoundWhatIsLeft
  <2> QED BY <2>1, <2>2 DEF Older
<1>3. \A l \in LotsOf(p) : l < at'[t] /\ Held(at[t], l)' = lots[l].remaining
  BY FoundWhatIsLeft
<1>4. /\ LotTable(L) /\ IsFiniteSet(DOMAIN lots) /\ DOMAIN lots \subseteq Nat
      /\ DOMAIN L = {l \in LotsOf(p) : lots[l].remaining > 0}
      /\ \A l \in DOMAIN L : L[l] = lots[l]
  <2>1. /\ LotTable(L) /\ IsFiniteSet(DOMAIN lots) /\ DOMAIN lots \subseteq Nat
        /\ DOMAIN L = {l \in DOMAIN lots : lots[l].position = p /\ lots[l].remaining > 0}
        /\ \A l \in DOMAIN L : L[l] = lots[l]
    BY <1>i, ActiveLots
  <2> HIDE DEF L
  <2>2. DOMAIN L = {l \in LotsOf(p) : lots[l].remaining > 0}
    BY <2>1 DEF LotsOf
  <2> QED BY <2>1, <2>2
<1>5. \A l \in LotsOf(p) : l \in Nat /\ lots[l].remaining \in Nat
  BY <1>i, LotFields DEF LotsOf
<1> HIDE DEF L, qty
<1>6. ASSUME NEW l \in LotsOf(p)
      PROVE  Wants(t, l)' = Wanted(L, qty, l)
  <2> DEFINE S == {m \in LotsOf(p) : m < l}
             T == {k \in DOMAIN L : k < l}
             f == [k \in S |-> lots[k].remaining]
             g == [k \in T |-> L[k].remaining]
             h == [k \in {m \in Older(t)' : m < l} |-> Held(at[t], k)']
  <2>1. IsFiniteSet(S)
    <3>1. S \subseteq DOMAIN lots
      BY DEF LotsOf
    <3> QED BY <1>4, <3>1, FS_Subset
  <2>2. h = f
    BY <1>2, <1>3
  <2>3. Padded(S, T, f, g)
    BY <1>4, <1>5, <2>1 DEF Padded
  <2>4. Wants(t, l)' = qty - Sum(h)
    BY DEF Wants, qty
  <2>5. Wanted(L, qty, l) = qty - Sum(g)
    BY DEF Wanted, Remaining
  <2> HIDE DEF S, T, f, g, h
  <2>6. Sum(f) = Sum(g)
    BY <2>3, PaddedSums
  <2> QED BY <2>2, <2>4, <2>5, <2>6
<1>7. \A l \in DOMAIN L : Wanted(L, qty, l) \in Int
  BY <1>1, <1>4, WantedType DEF qty
<1>8. ASSUME NEW l \in LotsOf(p)
      PROVE  Share(t, l)' = IF Wanted(L, qty, l) <= 0 THEN 0 ELSE Smaller(lots[l].remaining, Wanted(L, qty, l))
  BY <1>3, <1>6 DEF Share
<1>9. ASSUME NEW l \in DOMAIN L, Wanted(L, qty, l) > 0
      PROVE  Share(t, l)' = SellQty(L, qty, l)
  <2>1. l \in LotsOf(p) /\ L[l].remaining = lots[l].remaining /\ ~(Wanted(L, qty, l) <= 0)
    BY <1>4, <1>7, <1>9
  <2> QED BY <1>8, <2>1 DEF SellQty, Smaller
<1>10. \A r \in pnls' : r.trade = t => r.lot < at'[t] /\ r.quantity = Share(t, r.lot)'
  BY <1>1 DEF BookInv, RowFacts, Booking
<1>11. \A g \in legs'[t] : g.lot < at'[t] /\ g.qty = Share(t, g.lot)'
  <2> SUFFICES ASSUME NEW g \in legs'[t]
               PROVE  g.lot < at'[t] /\ g.qty = Share(t, g.lot)'
    OBVIOUS
  <2>1. PICK l \in DOMAIN L : Wanted(L, qty, l) > 0 /\ g = Leg(L, qty, l)
    BY <1>1 DEF ComputeFifoSell
  <2>2. g.lot = l /\ g.qty = SellQty(L, qty, l)
    BY <2>1 DEF Leg
  <2>3. l \in LotsOf(p)
    BY <1>4
  <2> QED BY <1>3, <1>9, <2>1, <2>2, <2>3
<1>12. ASSUME NEW l \in Older(t)'
       PROVE  /\ Held(at[t], l)' >= 0
              /\ Share(t, l)' # 0 => \E g \in legs'[t] : g.lot = l
  <2>1. l \in LotsOf(p)
    BY <1>2
  <2>2. Held(at[t], l)' >= 0
    BY <1>3, <1>5, <2>1
  <2>3. ASSUME Share(t, l)' # 0
        PROVE  \E g \in legs'[t] : g.lot = l
    <3>1. ~(Wanted(L, qty, l) <= 0) /\ Smaller(lots[l].remaining, Wanted(L, qty, l)) # 0
      BY <1>8, <2>1, <2>3
    <3>2. lots[l].remaining > 0
      <4>1. lots[l].remaining \in Nat
        BY <1>5, <2>1
      <4>2. CASE lots[l].remaining = 0
        <5>1. l \notin DOMAIN L
          BY <1>4, <4>2
        <5>2. Wanted(L, qty, l) \in Int
          <6> DEFINE T == {k \in DOMAIN L : k < l}
          <6>1. Remaining(L, T) \in Nat
            BY <1>4, RemainingType
          <6> QED BY <1>1, <6>1 DEF Wanted, qty
        <5>3. 0 < Wanted(L, qty, l)
          BY <3>1, <5>2
        <5> QED BY <3>1, <4>2, <5>3 DEF Smaller
      <4> QED BY <4>1, <4>2
    <3>3. l \in DOMAIN L
      BY <1>4, <2>1, <3>2
    <3>4. Wanted(L, qty, l) > 0
      BY <1>7, <3>1, <3>3
    <3>5. Leg(L, qty, l) \in legs'[t] /\ Leg(L, qty, l).lot = l
      BY <1>1, <3>3, <3>4 DEF ComputeFifoSell, Leg, qty
    <3> QED BY <3>5
  <2> QED BY <2>2, <2>3
<1> QED BY <1>10, <1>11, <1>12 DEF Fifo

(* A step of a trade leaves every sale its shares, *)
LEMMA MatchingBook ==
  ASSUME IInv, BookInv, Conserve, DatesApart, Overtaken, Matching, NEW v \in Trades, Book(v), order' = order
  PROVE  Matching'
<1>i. TypeInv /\ MatchInv /\ [Next]_vars /\ order \in Scenarios
  <2>1. TypeInv /\ MatchInv /\ [Next]_vars
    BY DEF BookInv, Next
  <2> QED BY <2>1 DEF TypeInv, TypeOK, StoreTypeOK
<1> SUFFICES ASSUME NEW t \in Trades, Took(t)', Clear(Position(t))'
             PROVE  Fifo(t)'
  BY DEF Matching
<1>1. Clear(Position(t))
  <2>1. Position(t) \in Positions
    BY <1>i, Orders
  <2>2. Position(t)' = Position(t)
    BY DEF Position
  <2> QED BY <1>i, <2>1, <2>2, MarksStay DEF Clear
<1>2. CASE Took(t)
  BY <1>1, <1>2, FifoKept DEF Matching
<1>3. CASE ~Took(t)
  <2>1. pc[t] \in {"new", "refused"} /\ order[t].type = "SELL" /\ pc'[t] \notin {"new", "refused"}
    BY <1>3 DEF Took
  <2>2. v = t
    BY <1>i, <2>1, Pace
  <2>3. pc[t] = "new" /\ ~RefuseSale(t)
    <3>1. pc[t] # "refused"
      BY <2>2 DEF Book, UpsertForBuy, CreateLot, RefuseSale, MatchLots, Start, RecordPnL, UpdateLot, ListLots,
                  WriteAggregates
    <3>2. ~RefuseSale(t)
      <4>1. RefuseSale(t) => pc'[t] = "refused"
        BY <1>i DEF RefuseSale, Goto, TypeInv, TypeOK
      <4> QED BY <2>1, <4>1
    <3> QED BY <2>1, <3>1, <3>2
  <2>4. MatchLots(t)
    BY <1>i, <2>1, <2>2, <2>3, Pace
  <2> QED BY <2>4, FifoMatch
<1> QED BY <1>2, <1>3

(* and so does any step. *)
LEMMA MatchingKept ==
  ASSUME IInv, BookInv, Conserve, DatesApart, Overtaken, Matching, [Next]_vars
  PROVE  Matching'
<1>0. ASSUME UNCHANGED <<order, lots, pnls, at>>, NEW t \in Trades, legs'[t] = legs[t], Fifo(t)
      PROVE  Fifo(t)'
  <2>1. Older(t)' = Older(t)
    BY <1>0 DEF Older, LotsOf, Position
  <2>2. \A l \in Older(t) : lots'[l].original = lots[l].original /\ SoldBefore(at[t], l)' = SoldBefore(at[t], l)
    BY <1>0 DEF SoldBefore
  <2>3. \A l \in Older(t) : Held(at[t], l)' = Held(at[t], l) /\ Share(t, l)' = Share(t, l)
    BY <1>0, <2>1, <2>2, SameShare
  <2>4. \A l \in Older(t) :
          /\ Held(at[t], l)' >= 0
          /\ Share(t, l)' # 0 => (\E r \in pnls' : r.trade = t /\ r.lot = l) \/ (\E g \in legs'[t] : g.lot = l)
    BY <1>0, <2>3 DEF Fifo
  <2>5. \A r \in pnls : r.trade = t => r.lot \in Older(t)
    BY <1>0 DEF Fifo, Older, LotsOf, BookInv, RowFacts, IsRow
  <2>6. \A g \in legs[t] : g.lot \in Older(t)
    BY <1>0 DEF Fifo, Older, LotsOf, IInv, LegsOwn
  <2>7. \A r \in pnls' : r.trade = t => r.lot < at'[t] /\ r.quantity = Share(t, r.lot)'
    BY <1>0, <2>3, <2>5 DEF Fifo
  <2>8. \A g \in legs'[t] : g.lot < at'[t] /\ g.qty = Share(t, g.lot)'
    BY <1>0, <2>3, <2>6 DEF Fifo
  <2> QED BY <2>1, <2>4, <2>7, <2>8 DEF Fifo
<1>1. CASE UNCHANGED vars
  <2>1. UNCHANGED <<order, lots, pnls, at, pc, off, legs>>
    BY <1>1 DEF vars, tables
  <2>2. \A t \in Trades : Took(t)' = Took(t) /\ Clear(Position(t))' = Clear(Position(t))
    BY <2>1 DEF Took, Clear, Position
  <2> QED BY <1>0, <2>1, <2>2 DEF Matching
<1>2. ASSUME NEW S \in SUBSET Trades, Stop(S), order' = order, \A t \in S : pc[t] \in Running
      PROVE  Matching'
  <2>i. TypeInv /\ order \in Scenarios
    BY DEF BookInv, TypeInv, TypeOK, StoreTypeOK
  <2>1. /\ UNCHANGED <<lots, pnls, at>>
        /\ \A u \in Trades : u \notin S => pc'[u] = pc[u] /\ legs'[u] = legs[u]
        /\ \A p \in Positions : /\ off[p] \subseteq off'[p]
                                /\ \A u \in S : Position(u) = p => Harm(u) \subseteq off'[p]
    BY <1>2, <2>i, StopOK
  <2> SUFFICES ASSUME NEW t \in Trades, Took(t)', Clear(Position(t))'
               PROVE  Fifo(t)'
    BY DEF Matching
  <2>2. Position(t)' = Position(t) /\ Position(t) \in Positions
    BY <1>2, <2>i, Orders DEF Position
  <2>3. Clear(Position(t))
    BY <2>1, <2>2 DEF Clear
  <2>4. t \notin S
    BY <2>1, <2>2 DEF Clear, Harm
  <2>5. Took(t)
    BY <1>2, <2>1, <2>4 DEF Took
  <2>6. Fifo(t)
    BY <2>3, <2>5 DEF Matching
  <2> QED BY <1>0, <1>2, <2>1, <2>4, <2>6
<1> QED BY <1>1, <1>2, MatchingBook DEF Next, Fail, Crash

-----------------------------------------------------------------------------
(* A journal of trades whose sales are rows: what CalculatePnL makes of it. *)

(* Row r sells, as trade s[r] of the journal o, shares that trade b[r]       *)
(* bought.  What is left of each purchase after n trades, and the rows of   *)
(* one sale and one purchase.                                               *)
Bought(o) == {i \in DOMAIN o : o[i].type = "BUY"}
Through(R, b, s, n, i) == {r \in R : b[r] = i /\ s[r] <= n}
Rest(o, R, b, s, n) ==
  [i \in DOMAIN o |-> IF i \in Bought(o) /\ i <= n THEN o[i].qty - Sold(Through(R, b, s, n, i)) ELSE 0]
OfPair(R, b, s, n, i) == {r \in R : s[r] = n /\ b[r] = i}

(* The queue is the one function with its recursion. *)
LEMMA QueueRec ==
  ASSUME NEW o, NEW N \in Nat, Len(o) = N,
         NEW Q, Q = [n \in 0..N |-> IF n = 0 THEN [i \in DOMAIN o |-> 0] ELSE Traded(Q[n - 1], o[n], n)]
  PROVE  BuyQueue(o) = Q
<1> DEFINE q == BuyQueue(o)
           G(f) == [n \in 0..N |-> IF n = 0 THEN [i \in DOMAIN o |-> 0] ELSE Traded(f[n - 1], o[n], n)]
<1>1. q = CHOOSE f : f = G(f)
  BY DEF BuyQueue
<1>2. Q = G(Q)
  OBVIOUS
<1> HIDE DEF q
<1>3. q = G(q)
  <2> HIDE DEF G
  <2> QED BY <1>1, <1>2
<1>4. \A n \in Nat : n <= N => q[n] = Q[n]
  <2> DEFINE M == {n \in Nat : n <= N => q[n] = Q[n]}
  <2>1. 0 \in M
    BY <1>2, <1>3
  <2>2. ASSUME NEW n \in Nat, n \in M
        PROVE  n + 1 \in M
    <3>1. CASE n + 1 <= N
      <4>1. q[n] = Q[n] /\ n + 1 \in 0..N /\ n + 1 # 0 /\ (n + 1) - 1 = n
        BY <2>2, <3>1
      <4>2. q[n + 1] = Traded(q[n], o[n + 1], n + 1)
        BY <1>3, <4>1
      <4>3. Q[n + 1] = Traded(Q[n], o[n + 1], n + 1)
        BY <1>2, <4>1
      <4> QED BY <4>1, <4>2, <4>3
    <3>2. CASE ~(n + 1 <= N)
      BY <3>2
    <3> QED BY <3>1, <3>2
  <2> HIDE DEF M
  <2>3. Nat \subseteq M
    BY <2>1, <2>2, NaturalInduction
  <2> QED BY <2>3 DEF M
<1>5. \A n \in 0..N : q[n] = Q[n]
  <2>1. \A n \in 0..N : n \in Nat /\ n <= N
    OBVIOUS
  <2> QED BY ONLY <1>4, <2>1
<1>6. DOMAIN q = 0..N /\ q = [n \in 0..N |-> q[n]] /\ Q = [n \in 0..N |-> Q[n]]
  BY <1>2, <1>3
<1> QED BY <1>5, <1>6 DEF q

(* Each sale is in the rows, with the price difference and, of each older   *)
(* purchase, as many shares as the journal's queue matches.                 *)
Story(N, o, R, b, s) ==
  /\ N \in Nat /\ DOMAIN o = 1..N /\ Len(o) = N
  /\ \A i \in 1..N : o[i].qty \in Int /\ o[i].price \in Int
  /\ IsFiniteSet(R) /\ \A r \in R : r.quantity \in Nat
  /\ b \in [R -> 1..N] /\ s \in [R -> 1..N]
  /\ \A r \in R : b[r] \in Bought(o) /\ s[r] \notin Bought(o) /\ b[r] < s[r]
  /\ \A r \in R : r.gross = (o[s[r]].price - o[b[r]].price) * r.quantity
  /\ \A n \in 1..N : n \notin Bought(o) => Sold({r \in R : s[r] = n}) = o[n].qty
  /\ \A n \in 1..N, i \in Bought(o) : n \notin Bought(o) /\ i < n =>
       Sold(OfPair(R, b, s, n, i)) = Matched(Rest(o, R, b, s, n - 1), o[n].qty, i)

(* Rows of a part of a story sell a natural number. *)
LEMMA StoryRows ==
  ASSUME NEW N, NEW o, NEW R, NEW b, NEW s, Story(N, o, R, b, s), NEW X \in SUBSET R
  PROVE  IsFiniteSet(X) /\ Sold(X) \in Nat
<1>1. IsFiniteSet(X) /\ \A r \in X : r.quantity \in Nat
  BY FS_Subset DEF Story
<1> QED BY <1>1, SoldType

(* What a story leaves of the trades are integers. *)
LEMMA RestType ==
  ASSUME NEW N, NEW o, NEW R, NEW b, NEW s, Story(N, o, R, b, s), NEW n
  PROVE  Rest(o, R, b, s, n) \in [1..N -> Int]
<1>1. \A i \in 1..N : Sold(Through(R, b, s, n, i)) \in Int /\ o[i].qty \in Int
  <2>1. \A i \in 1..N : Through(R, b, s, n, i) \in SUBSET R
    BY DEF Through
  <2>2. \A X \in SUBSET R : Sold(X) \in Nat
    BY StoryRows
  <2> QED BY <2>1, <2>2 DEF Story
<1>2. DOMAIN o = 1..N
  BY DEF Story
<1> QED BY <1>1, <1>2 DEF Rest

(* Nothing is matched with an empty place of the queue. *)
LEMMA NothingMatched ==
  ASSUME NEW N \in Nat, NEW left \in [1..N -> Int], NEW qty \in Int, NEW i \in 1..N, left[i] = 0
  PROVE  Matched(left, qty, i) = 0
<1> DEFINE I == 1..(i - 1)
           f == [k \in I |-> left[k]]
<1>1. IsFiniteSet(I) /\ f \in [I -> Int]
  <2>1. i - 1 \in Int /\ \A k \in I : k \in 1..N
    OBVIOUS
  <2>2. IsFiniteSet(I)
    BY <2>1, FS_Interval
  <2> QED BY <2>1, <2>2
<1> HIDE DEF I, f
<1>2. Sum(f) \in Int
  BY <1>1, SumType
<1>3. Ahead(left, i) \in Int
  BY <1>2 DEF Ahead, f, I
<1> QED BY <1>3 DEF Matched, Smaller

(* What a sale matches with any place of the queue is what the rows say. *)
LEMMA StoryMatches ==
  ASSUME NEW N, NEW o, NEW R, NEW b, NEW s, Story(N, o, R, b, s),
         NEW n \in 1..N, n \notin Bought(o), NEW i \in 1..N
  PROVE  Matched(Rest(o, R, b, s, n - 1), o[n].qty, i) = Sold(OfPair(R, b, s, n, i))
<1>0. N \in Nat /\ DOMAIN o = 1..N /\ o[n].qty \in Int
  BY DEF Story
<1>1. CASE i \in Bought(o) /\ i < n
  BY <1>1 DEF Story
<1>2. CASE ~(i \in Bought(o) /\ i < n)
  <2>1. OfPair(R, b, s, n, i) = {}
    BY <1>2 DEF OfPair, Story
  <2>2. Rest(o, R, b, s, n - 1) \in [1..N -> Int]
    BY RestType
  <2>3. ~(i \in Bought(o) /\ i <= n - 1)
    BY <1>0, <1>2
  <2>4. Rest(o, R, b, s, n - 1)[i] = 0
    BY <1>0, <2>3 DEF Rest
  <2> HIDE DEF Rest
  <2>5. Matched(Rest(o, R, b, s, n - 1), o[n].qty, i) = 0
    BY <1>0, <2>2, <2>4, NothingMatched
  <2> QED BY <2>1, <2>5, SoldNothing
<1> QED BY <1>1, <1>2

(* A sale takes of the queue what its rows say. *)
LEMMA StoryStep ==
  ASSUME NEW N, NEW o, NEW R, NEW b, NEW s, Story(N, o, R, b, s), NEW n \in 1..N
  PROVE  Rest(o, R, b, s, n) = Traded(Rest(o, R, b, s, n - 1), o[n], n)
<1> DEFINE L == Rest(o, R, b, s, n)
           K == Rest(o, R, b, s, n - 1)
           D == Traded(K, o[n], n)
<1>0. N \in Nat /\ DOMAIN o = 1..N /\ \A i \in 1..N : o[i].qty \in Int
  BY DEF Story
<1>1. L \in [1..N -> Int] /\ K \in [1..N -> Int]
  BY RestType
<1>2. \A i \in 1..N : /\ i \in Bought(o) /\ i <= n => L[i] = o[i].qty - Sold(Through(R, b, s, n, i))
                      /\ ~(i \in Bought(o) /\ i <= n) => L[i] = 0
                      /\ i \in Bought(o) /\ i <= n - 1 => K[i] = o[i].qty - Sold(Through(R, b, s, n - 1, i))
                      /\ ~(i \in Bought(o) /\ i <= n - 1) => K[i] = 0
  BY <1>0 DEF Rest
<1>r. \A r \in R : s[r] \in 1..N /\ b[r] \in Bought(o) /\ s[r] \notin Bought(o) /\ b[r] < s[r] /\ b[r] \in 1..N
  BY DEF Story
<1> HIDE DEF L, K
<1>3. CASE o[n].type = "BUY"
  <2>0. n \in Bought(o)
    BY <1>0, <1>3 DEF Bought
  <2>1. D = [K EXCEPT ![n] = o[n].qty]
    BY <1>3 DEF Traded
  <2>2. D \in [1..N -> Int] /\ D[n] = o[n].qty /\ \A i \in 1..N : i # n => D[i] = K[i]
    BY <1>0, <1>1, <2>1
  <2>3. ASSUME NEW i \in 1..N
        PROVE  L[i] = D[i]
    <3>1. CASE i = n
      <4>1. Through(R, b, s, n, i) = {}
        BY <1>0, <1>r, <3>1 DEF Through
      <4>2. n \in Bought(o) /\ n <= n
        BY <1>0, <2>0
      <4>3. L[n] = o[n].qty - Sold(Through(R, b, s, n, n))
        BY <1>2, <4>2
      <4>4. L[n] = o[n].qty - 0
        BY <3>1, <4>1, <4>3, SoldNothing
      <4>5. o[n].qty \in Int
        BY <1>0
      <4> QED BY <2>2, <3>1, <4>4, <4>5
    <3>2. CASE i # n /\ i \in Bought(o) /\ i <= n
      <4>1. \A r \in R : s[r] <= n <=> s[r] <= n - 1
        BY <1>0, <1>r, <2>0
      <4>2. Through(R, b, s, n, i) = Through(R, b, s, n - 1, i)
        BY <4>1 DEF Through
      <4>3. i <= n - 1
        BY <3>2
      <4> QED BY <1>2, <2>2, <3>2, <4>2, <4>3
    <3>3. CASE i # n /\ ~(i \in Bought(o) /\ i <= n)
      <4>1. ~(i \in Bought(o) /\ i <= n - 1)
        BY <3>3
      <4> QED BY <1>2, <2>2, <3>3, <4>1
    <3> QED BY <3>1, <3>2, <3>3
  <2> HIDE DEF D
  <2>4. L = D
    <3>1. L = [i \in 1..N |-> L[i]] /\ D = [i \in 1..N |-> D[i]]
      BY <1>1, <2>2
    <3> QED BY ONLY <2>3, <3>1
  <2> QED BY <2>4 DEF L, D, K
<1>4. CASE o[n].type # "BUY"
  <2>0. n \notin Bought(o)
    BY <1>4 DEF Bought
  <2>1. D = [i \in 1..N |-> K[i] - Matched(K, o[n].qty, i)]
    BY <1>1, <1>4 DEF Traded
  <2>2. \A i \in 1..N : Matched(K, o[n].qty, i) = Sold(OfPair(R, b, s, n, i))
    BY <2>0, StoryMatches DEF K
  <2>3. ASSUME NEW i \in 1..N
        PROVE  L[i] = K[i] - Sold(OfPair(R, b, s, n, i))
    <3> DEFINE P == OfPair(R, b, s, n, i)
               A == Through(R, b, s, n - 1, i)
               B == Through(R, b, s, n, i)
    <3>0. P \in SUBSET R /\ A \in SUBSET R /\ B \in SUBSET R
      BY DEF OfPair, Through
    <3>1. \A X \in SUBSET R : IsFiniteSet(X) /\ Sold(X) \in Nat
      BY StoryRows
    <3>2. CASE i \in Bought(o) /\ i <= n
      <4>1. i <= n - 1
        BY <2>0, <3>2
      <4>2. B = A \cup P /\ A \cap P = {}
        <5>1. \A r \in R : s[r] <= n <=> s[r] <= n - 1 \/ s[r] = n
          BY <1>0, <1>r
        <5>2. \A r \in R : s[r] = n => ~(s[r] <= n - 1)
          BY <1>0, <1>r
        <5> QED BY <5>1, <5>2 DEF OfPair, Through
      <4>3. Sold(B) = Sold(A) + Sold(P)
        <5> DEFINE f == [r \in A |-> r.quantity]
                   g == [r \in P |-> r.quantity]
                   h == [r \in A \cup P |-> r.quantity]
        <5>1. \A r \in R : r.quantity \in Nat
          BY DEF Story
        <5>2. f \in [A -> Int] /\ g \in [P -> Int] /\ h \in [A \cup P -> Int]
          BY <3>0, <5>1
        <5>3. (\A r \in A : h[r] = f[r]) /\ (\A r \in P : h[r] = g[r])
          OBVIOUS
        <5>4. IsFiniteSet(A) /\ IsFiniteSet(P)
          BY <3>0, <3>1
        <5>5. Sold(A) = Sum(f) /\ Sold(P) = Sum(g) /\ Sold(B) = Sum(h)
          BY <4>2 DEF Sold
        <5> HIDE DEF f, g, h, A, P, B
        <5>6. Sum(h) = Sum(f) + Sum(g)
          BY <4>2, <5>2, <5>3, <5>4, SumSplit
        <5> QED BY <5>5, <5>6
      <4>4. L[i] = o[i].qty - Sold(B) /\ K[i] = o[i].qty - Sold(A)
        BY <1>2, <3>2, <4>1
      <4>5. Sold(A) \in Nat /\ Sold(P) \in Nat /\ o[i].qty \in Int
        BY <1>0, <3>0, <3>1
      <4> HIDE DEF A, B, P
      <4>6. L[i] = K[i] - Sold(P)
        BY <4>3, <4>4, <4>5
      <4> QED BY <4>6 DEF P
    <3>3. CASE ~(i \in Bought(o) /\ i <= n)
      <4>1. ~(i \in Bought(o) /\ i <= n - 1)
        BY <3>3
      <4>2. P = {}
        BY <1>r, <3>3 DEF OfPair
      <4>3. L[i] = 0 /\ K[i] = 0
        BY <1>2, <3>3, <4>1
      <4> QED BY <4>2, <4>3, SoldNothing
    <3> QED BY <3>2, <3>3
  <2>4. \A i \in 1..N : L[i] = K[i] - Matched(K, o[n].qty, i)
    BY <2>2, <2>3
  <2>5. L = D
    BY <1>1, <2>1, <2>4
  <2> QED BY <2>5 DEF L, D, K
<1> QED BY <1>3, <1>4

(* The journal's queue holds what the rows leave. *)
LEMMA StoryQueue ==
  ASSUME NEW N, NEW o, NEW R, NEW b, NEW s, Story(N, o, R, b, s)
  PROVE  \A n \in 0..N : BuyQueue(o)[n] = Rest(o, R, b, s, n)
<1> DEFINE Q == [n \in 0..N |-> Rest(o, R, b, s, n)]
<1>0. N \in Nat /\ DOMAIN o = 1..N /\ Len(o) = N
  BY DEF Story
<1>1. Rest(o, R, b, s, 0) = [i \in DOMAIN o |-> 0]
  BY <1>0 DEF Rest
<1>2. \A n \in 1..N : Rest(o, R, b, s, n) = Traded(Rest(o, R, b, s, n - 1), o[n], n)
  BY StoryStep
<1>3. \A n \in 0..N : Q[n] = IF n = 0 THEN [i \in DOMAIN o |-> 0] ELSE Traded(Q[n - 1], o[n], n)
  <2> SUFFICES ASSUME NEW n \in 0..N
               PROVE  Q[n] = IF n = 0 THEN [i \in DOMAIN o |-> 0] ELSE Traded(Q[n - 1], o[n], n)
    OBVIOUS
  <2>1. CASE n = 0
    BY <1>1, <2>1
  <2>2. CASE n # 0
    <3>1. n \in 1..N /\ n - 1 \in 0..N
      BY <1>0, <2>2
    <3> HIDE DEF Rest
    <3>2. Q[n] = Rest(o, R, b, s, n) /\ Q[n - 1] = Rest(o, R, b, s, n - 1)
      BY <3>1
    <3> QED BY <1>2, <2>2, <3>1, <3>2
  <2> QED BY <2>1, <2>2
<1>4. Q = [n \in 0..N |-> IF n = 0 THEN [i \in DOMAIN o |-> 0] ELSE Traded(Q[n - 1], o[n], n)]
  <2>1. Q = [n \in 0..N |-> Q[n]]
    OBVIOUS
  <2> HIDE DEF Q
  <2> QED BY <1>3, <2>1
<1> HIDE DEF Q
<1>5. BuyQueue(o) = Q
  BY <1>0, <1>4, QueueRec
<1> QED BY <1>5 DEF Q

(* The rows of one group. *)
RowsAt(R, h, k) == {r \in R : h[r] = k}

(* Rows sold, group by group. *)
LEMMA SoldByGroup ==
  ASSUME NEW R, IsFiniteSet(R), \A r \in R : r.quantity \in Nat, NEW K, IsFiniteSet(K), NEW h \in [R -> K]
  PROVE  /\ \A k \in K : Sold(RowsAt(R, h, k)) \in Nat
         /\ Sum([k \in K |-> Sold(RowsAt(R, h, k))]) = Sold(R)
<1> DEFINE f == [r \in R |-> r.quantity]
           part == [k \in K |-> Sold(RowsAt(R, h, k))]
<1>1. \A k \in K : Sold(RowsAt(R, h, k)) \in Nat
  <2> SUFFICES ASSUME NEW k \in K PROVE Sold(RowsAt(R, h, k)) \in Nat
    OBVIOUS
  <2> DEFINE X == RowsAt(R, h, k)
  <2>1. X \subseteq R
    BY DEF RowsAt
  <2>2. IsFiniteSet(X) /\ \A r \in X : r.quantity \in Nat
    BY <2>1, FS_Subset
  <2> HIDE DEF X
  <2>3. Sold(X) \in Nat
    BY <2>2, SoldType
  <2> QED BY <2>3 DEF X
<1>2. f \in [R -> Int] /\ part \in [K -> Int]
  BY <1>1
<1>3. \A k \in K : part[k] = Sum([x \in {y \in R : h[y] = k} |-> f[x]])
  <2> SUFFICES ASSUME NEW k \in K
               PROVE  part[k] = Sum([x \in {y \in R : h[y] = k} |-> f[x]])
    OBVIOUS
  <2>1. [x \in {y \in R : h[y] = k} |-> f[x]] = [x \in {y \in R : h[y] = k} |-> x.quantity]
    OBVIOUS
  <2> QED BY <2>1 DEF Sold, RowsAt
<1>4. Sold(R) = Sum(f)
  BY DEF Sold
<1>5. Partitioned(R, K, h, f, part)
  BY <1>2, <1>3 DEF Partitioned
<1> HIDE DEF f, part
<1>6. Sum(part) = Sum(f)
  BY ONLY <1>5, PartsAddUp
<1> QED BY <1>1, <1>4, <1>6 DEF part

(* The profit of one sale of the story. *)
LEMMA StoryProfit ==
  ASSUME NEW N, NEW o, NEW R, NEW b, NEW s, Story(N, o, R, b, s), NEW n \in 1..N, n \notin Bought(o)
  PROVE  /\ Sum([i \in DOMAIN o |-> Matched(BuyQueue(o)[n - 1], o[n].qty, i) * (o[n].price - o[i].price)])
              = Sum([r \in RowsAt(R, s, n) |-> r.gross])
         /\ Sum([r \in RowsAt(R, s, n) |-> r.gross]) \in Int
<1> DEFINE X == RowsAt(R, s, n)
           K == 1..N
           f == [r \in X |-> r.gross]
           h == [r \in X |-> b[r]]
           part == [i \in DOMAIN o |-> Matched(BuyQueue(o)[n - 1], o[n].qty, i) * (o[n].price - o[i].price)]
<1>0. /\ N \in Nat /\ DOMAIN o = 1..N /\ \A i \in 1..N : o[i].price \in Int
      /\ IsFiniteSet(R) /\ \A r \in R : r.quantity \in Nat /\ b[r] \in 1..N /\ s[r] \in 1..N
                                        /\ r.gross = (o[s[r]].price - o[b[r]].price) * r.quantity
  BY DEF Story
<1>1. X \subseteq R /\ IsFiniteSet(X) /\ IsFiniteSet(K)
  <2>1. X \subseteq R
    BY DEF RowsAt
  <2>2. IsFiniteSet(X)
    BY <1>0, <2>1, FS_Subset
  <2>3. IsFiniteSet(K)
    BY <1>0, FS_Interval
  <2> QED BY <2>1, <2>2, <2>3
<1>2. \A r \in X : r \in R /\ s[r] = n /\ r.gross = (o[n].price - o[b[r]].price) * r.quantity
  BY <1>0 DEF RowsAt
<1>3. f \in [X -> Int] /\ h \in [X -> K]
  <2>1. \A r \in X : r.gross \in Int
    <3> SUFFICES ASSUME NEW r \in X PROVE r.gross \in Int
      OBVIOUS
    <3>1. o[n].price \in Int /\ o[b[r]].price \in Int /\ r.quantity \in Int
      BY <1>0, <1>2
    <3>2. \A x \in Int, y \in Int, z \in Int : (x - y) * z \in Int
      OBVIOUS
    <3> QED BY <1>2, <3>1, <3>2
  <2> QED BY <1>0, <1>2, <2>1
<1>4. \A i \in K : part[i] = Sold(OfPair(R, b, s, n, i)) * (o[n].price - o[i].price)
  <2>1. BuyQueue(o)[n - 1] = Rest(o, R, b, s, n - 1)
    <3>1. n - 1 \in 0..N
      BY <1>0
    <3> QED BY <3>1, StoryQueue
  <2>2. \A i \in K : Matched(BuyQueue(o)[n - 1], o[n].qty, i) = Sold(OfPair(R, b, s, n, i))
    BY <2>1, StoryMatches
  <2> QED BY <1>0, <2>2
<1>5. \A i \in K : part[i] \in Int /\ part[i] = Sum([x \in {y \in X : h[y] = i} |-> f[x]])
  <2> SUFFICES ASSUME NEW i \in K
               PROVE  part[i] \in Int /\ part[i] = Sum([x \in {y \in X : h[y] = i} |-> f[x]])
    OBVIOUS
  <2> DEFINE P == OfPair(R, b, s, n, i)
             c == o[n].price - o[i].price
             q == [x \in P |-> x.quantity]
             g == [x \in P |-> x.gross]
  <2>1. P = {y \in X : h[y] = i} /\ P \subseteq R
    BY DEF OfPair, RowsAt
  <2>2. IsFiniteSet(P) /\ c \in Int
    <3>1. IsFiniteSet(P)
      BY <1>0, <2>1, FS_Subset
    <3>2. c \in Int
      BY <1>0
    <3> QED BY <3>1, <3>2
  <2>3. \A x \in P : x.quantity \in Int /\ x.gross = c * x.quantity
    <3>1. \A x \in P : x \in X /\ b[x] = i
      BY <1>0 DEF OfPair, RowsAt
    <3> HIDE DEF P, X
    <3>2. \A x \in P : x.gross = c * x.quantity
      BY <1>2, <3>1
    <3> QED BY <1>0, <1>2, <3>1, <3>2
  <2>4. [x \in {y \in X : h[y] = i} |-> f[x]] = g
    <3>1. \A x \in P : x \in X
      BY <2>1
    <3>2. [x \in P |-> f[x]] = g
      BY <3>1
    <3> QED BY <2>1, <3>2
  <2>5. Sold(P) = Sum(q)
    BY DEF Sold
  <2> HIDE DEF P, c
  <2>6. Scaled(P, c, q, g)
    <3>1. g \in [P -> Int]
      <4>1. \A x \in Int : c * x \in Int
        BY <2>2
      <4> QED BY <2>3, <4>1
    <3> QED BY <2>2, <2>3, <3>1 DEF Scaled
  <2> HIDE DEF q, g
  <2>7. Sum(g) = c * Sum(q)
    BY <2>6, ScaledSums
  <2>8. Sum(q) \in Int
    BY <2>6, SumType DEF Scaled
  <2>9. part[i] = Sum(q) * c
    BY <1>4, <2>5 DEF P, c
  <2>10. Sum(q) * c = c * Sum(q) /\ c * Sum(q) \in Int
    <3>1. \A x \in Int, y \in Int : x * y = y * x /\ x * y \in Int
      OBVIOUS
    <3> QED BY ONLY <2>2, <2>8, <3>1
  <2> HIDE DEF part, f, h, X, K
  <2> QED BY <2>4, <2>7, <2>9, <2>10
<1>6. part \in [K -> Int]
  <2>1. DOMAIN part = K /\ part = [i \in DOMAIN part |-> part[i]]
    BY <1>0
  <2> HIDE DEF part
  <2> QED BY <1>5, <2>1
<1> HIDE DEF X, K, f, h, part
<1>7. Sum(part) = Sum(f)
  <2>1. Partitioned(X, K, h, f, part)
    BY <1>1, <1>3, <1>5, <1>6 DEF Partitioned
  <2> QED BY ONLY <2>1, PartsAddUp
<1>8. Sum(f) \in Int
  BY <1>1, <1>3, SumType
<1> QED BY <1>7, <1>8 DEF part, f, X

(* What the rows leave of a buy of the story. *)
Kept(o, R, b, i) == o[i].qty - Sold(RowsAt(R, b, i))

(* The profit and the shares of a journal whose sales are in the rows. *)
LEMMA StoryRealized ==
  ASSUME NEW N, NEW o, NEW R, NEW b, NEW s, Story(N, o, R, b, s), NEW price
  PROVE  CalculatePnL(o, price).realized = Sum([r \in R |-> r.gross])
<1> DEFINE B == {n \in DOMAIN o : o[n].type = "BUY"}
           K == DOMAIN o \ B
           f == [r \in R |-> r.gross]
           part == [n \in K |-> Sum([i \in DOMAIN o |->
                      Matched(BuyQueue(o)[n - 1], o[n].qty, i) * (o[n].price - o[i].price)])]
<1>1. CalculatePnL(o, price).realized = Sum(part)
  BY DEF CalculatePnL
<1>0. /\ N \in Nat /\ DOMAIN o = 1..N /\ IsFiniteSet(R) /\ s \in [R -> 1..N] /\ b \in [R -> 1..N]
      /\ \A r \in R : s[r] \notin Bought(o)
  BY DEF Story
<1>2. B = Bought(o) /\ K = 1..N \ Bought(o)
  BY <1>0 DEF Bought
<1>3. IsFiniteSet(K) /\ s \in [R -> K]
  <2>1. IsFiniteSet(1..N)
    BY <1>0, FS_Interval
  <2>2. IsFiniteSet(K)
    BY <1>2, <2>1, FS_Subset
  <2>3. \A r \in R : s[r] \in K
    BY <1>0, <1>2
  <2> QED BY <1>0, <2>2, <2>3
<1>4. \A n \in K : part[n] = Sum([r \in RowsAt(R, s, n) |-> r.gross]) /\ part[n] \in Int
  <2> HIDE DEF K
  <2>1. \A n \in K : n \in 1..N /\ n \notin Bought(o)
    BY <1>2
  <2> QED BY <2>1, StoryProfit
<1>5. f \in [R -> Int]
  <2> SUFFICES ASSUME NEW r \in R PROVE r.gross \in Int
    OBVIOUS
  <2>1. /\ r.quantity \in Int /\ o[s[r]].price \in Int /\ o[b[r]].price \in Int
        /\ r.gross = (o[s[r]].price - o[b[r]].price) * r.quantity
    BY DEF Story
  <2>2. \A x \in Int, y \in Int, z \in Int : (x - y) * z \in Int
    OBVIOUS
  <2> QED BY <2>1, <2>2
<1>6. part \in [K -> Int]
  <2> DEFINE S(n) == Sum([i \in DOMAIN o |->
                      Matched(BuyQueue(o)[n - 1], o[n].qty, i) * (o[n].price - o[i].price)])
  <2>1. \A n \in K : S(n) \in Int
    BY <1>4
  <2> HIDE DEF S, K
  <2>2. [n \in K |-> S(n)] \in [K -> Int]
    BY <2>1
  <2> QED BY <2>2 DEF S
<1>7. \A n \in K : part[n] = Sum([x \in {y \in R : s[y] = n} |-> f[x]])
  <2> SUFFICES ASSUME NEW n \in K
               PROVE  part[n] = Sum([x \in {y \in R : s[y] = n} |-> f[x]])
    OBVIOUS
  <2>1. [x \in {y \in R : s[y] = n} |-> f[x]] = [r \in RowsAt(R, s, n) |-> r.gross]
    BY DEF RowsAt
  <2> HIDE DEF part, K, f
  <2> QED BY <1>4, <2>1
<1> HIDE DEF part, K, f, B
<1>8. Partitioned(R, K, s, f, part)
  BY <1>0, <1>3, <1>5, <1>6, <1>7 DEF Partitioned
<1>9. Sum(part) = Sum(f)
  BY <1>8, PartsAddUp
<1> QED BY <1>1, <1>9 DEF f

(* The queue at the end keeps of each purchase what no row sold. *)
LEMMA StoryLeft ==
  ASSUME NEW N, NEW o, NEW R, NEW b, NEW s, Story(N, o, R, b, s)
  PROVE  /\ BuyQueue(o)[Len(o)] \in [1..N -> Int]
         /\ \A i \in 1..N : BuyQueue(o)[Len(o)][i] = IF i \in Bought(o) THEN Kept(o, R, b, i) ELSE 0
         /\ \A i \in 1..N : Kept(o, R, b, i) \in Int /\ o[i].qty \in Int /\ o[i].price \in Int
         /\ IsFiniteSet(1..N) /\ Bought(o) \subseteq 1..N /\ DOMAIN o = 1..N
         /\ IsFiniteSet(Bought(o))
<1>0. /\ N \in Nat /\ DOMAIN o = 1..N /\ Len(o) = N /\ IsFiniteSet(R) /\ s \in [R -> 1..N] /\ b \in [R -> 1..N]
      /\ \A i \in 1..N : o[i].qty \in Int /\ o[i].price \in Int
  BY DEF Story
<1>1. BuyQueue(o)[Len(o)] = Rest(o, R, b, s, N)
  <2>1. N \in 0..N
    BY <1>0
  <2> QED BY <1>0, <2>1, StoryQueue
<1>2. \A i \in 1..N : Through(R, b, s, N, i) = RowsAt(R, b, i)
  <2>1. \A r \in R : s[r] <= N
    BY <1>0
  <2> QED BY <2>1 DEF Through, RowsAt
<1>3. \A i \in 1..N : Kept(o, R, b, i) \in Int
  <2>1. \A i \in 1..N : RowsAt(R, b, i) \in SUBSET R
    BY DEF RowsAt
  <2>2. \A X \in SUBSET R : Sold(X) \in Nat
    BY StoryRows
  <2> QED BY <1>0, <2>1, <2>2 DEF Kept
<1>4. \A i \in 1..N : Rest(o, R, b, s, N)[i] = IF i \in Bought(o) THEN Kept(o, R, b, i) ELSE 0
  BY <1>0, <1>2 DEF Rest, Kept
<1>5. Rest(o, R, b, s, N) \in [1..N -> Int]
  BY RestType
<1>6. IsFiniteSet(1..N) /\ Bought(o) \subseteq 1..N
  BY <1>0, FS_Interval DEF Bought
<1>7. IsFiniteSet(Bought(o))
  BY <1>6, FS_Subset
<1> QED BY <1>0, <1>1, <1>3, <1>4, <1>5, <1>6, <1>7

(* What the journal counts is what the rows leave of the purchases. *)
LEMMA StoryShares ==
  ASSUME NEW N, NEW o, NEW R, NEW b, NEW s, Story(N, o, R, b, s), NEW price
  PROVE  LET j == CalculatePnL(o, price)
         IN  /\ j.remaining = Sum([i \in Bought(o) |-> Kept(o, R, b, i)])
             /\ j.cost = Sum([i \in Bought(o) |-> Kept(o, R, b, i) * o[i].price])
             /\ j.bought - j.sold = j.remaining
<1> DEFINE left == BuyQueue(o)[Len(o)]
           B == Bought(o)
           D == 1..N
           K == D \ B
           kept == [i \in B |-> Kept(o, R, b, i)]
           worth == [i \in B |-> Kept(o, R, b, i) * o[i].price]
           value == [i \in D |-> left[i] * o[i].price]
           bought == [i \in B |-> o[i].qty]
           sold == [i \in K |-> o[i].qty]
           taken == [i \in B |-> Sold(RowsAt(R, b, i))]
<1>0. /\ left \in [D -> Int] /\ DOMAIN o = D /\ IsFiniteSet(D) /\ B \subseteq D /\ IsFiniteSet(B)
      /\ \A i \in D : left[i] = IF i \in B THEN Kept(o, R, b, i) ELSE 0
      /\ \A i \in D : Kept(o, R, b, i) \in Int /\ o[i].qty \in Int /\ o[i].price \in Int
  BY StoryLeft
<1>r. /\ IsFiniteSet(R) /\ (\A r \in R : r.quantity \in Nat) /\ b \in [R -> B] /\ s \in [R -> K]
      /\ \A n \in K : Sold(RowsAt(R, s, n)) = o[n].qty
  BY DEF Story, RowsAt
<1>1. LET j == CalculatePnL(o, price)
      IN  j.remaining = Sum(left) /\ j.cost = Sum(value) /\ j.bought = Sum(bought) /\ j.sold = Sum(sold)
  BY <1>0 DEF CalculatePnL, Bought
<1>p. \A x \in Int, y \in Int : x * y \in Int
  OBVIOUS
<1>z. \A x \in Int : 0 * x = 0
  OBVIOUS
<1> HIDE DEF left, B, D, K
<1>2. Sum(left) = Sum(kept)
  <2>1. Padded(D, B, left, kept)
    BY <1>0 DEF Padded
  <2> HIDE DEF kept
  <2> QED BY <2>1, PaddedSums
<1>3. Sum(value) = Sum(worth)
  <2>1. Padded(D, B, value, worth)
    <3>1. worth \in [B -> Int] /\ value \in [D -> Int]
      BY <1>0, <1>p
    <3>2. (\A i \in B : worth[i] = value[i]) /\ \A i \in D \ B : value[i] = 0
      BY <1>0, <1>z
    <3> HIDE DEF value, worth
    <3> QED BY <1>0, <3>1, <3>2 DEF Padded
  <2> HIDE DEF value, worth
  <2> QED BY <2>1, PaddedSums
<1>4. Sum(taken) = Sold(R) /\ (\A i \in B : Sold(RowsAt(R, b, i)) \in Int) /\ Sum(sold) = Sold(R)
  <2>1. Sum(taken) = Sold(R) /\ (\A i \in B : Sold(RowsAt(R, b, i)) \in Int)
    BY <1>0, <1>r, SoldByGroup
  <2>2. IsFiniteSet(K)
    BY <1>0, FS_Subset DEF K
  <2>3. Sum([n \in K |-> Sold(RowsAt(R, s, n))]) = Sold(R)
    BY <1>r, <2>2, SoldByGroup
  <2>4. sold = [n \in K |-> Sold(RowsAt(R, s, n))]
    BY <1>r
  <2> HIDE DEF sold, taken
  <2> QED BY <2>1, <2>3, <2>4
<1>5. Sum(bought) = Sum(kept) + Sum(taken)
  <2>1. kept \in [B -> Int] /\ taken \in [B -> Int] /\ bought \in [B -> Int]
    BY <1>0, <1>4
  <2>2. \A i \in B : bought[i] = kept[i] + taken[i]
    BY <1>0, <1>4 DEF Kept
  <2> HIDE DEF kept, taken, bought
  <2>3. Added(B, kept, taken, bought)
    BY <1>0, <2>1, <2>2 DEF Added
  <2> QED BY <2>3, AddedSums
<1>6. Sum(kept) \in Int /\ Sold(R) \in Int
  <2>1. kept \in [B -> Int]
    BY <1>0
  <2>2. Sold(R) \in Nat
    BY StoryRows
  <2> HIDE DEF kept
  <2> QED BY <1>0, <2>1, <2>2, SumType
<1>7. Sum(bought) - Sum(sold) = Sum(kept)
  <2> HIDE DEF bought, sold, kept, taken
  <2> QED BY <1>4, <1>5, <1>6
<1>8. kept = [i \in Bought(o) |-> Kept(o, R, b, i)] /\ worth = [i \in Bought(o) |-> Kept(o, R, b, i) * o[i].price]
  BY DEF B
<1> HIDE DEF bought, sold, kept, taken, value, worth
<1> QED BY <1>1, <1>2, <1>3, <1>7, <1>8

-----------------------------------------------------------------------------
(* The journal of a settled position. *)

(* Nobody trades the position, and nothing but its row is known to be off;  *)
(* its trades that ended, by their dates.                                   *)
Settled(p) == Quiet(p) /\ Clear(p)
Ended(p) == {t \in Trades : Position(t) = p /\ pc[t] = "ok"}
Dated(p) == [i \in 1..Cardinality(Ended(p)) |->
               CHOOSE t \in Ended(p) : Cardinality({u \in Ended(p) : at[u] < at[t]}) = i - 1]

InOrder(p, N, W) ==
  /\ N \in Nat /\ W \in [1..N -> Ended(p)]
  /\ \A t \in Ended(p) : \E i \in 1..N : W[i] = t
  /\ \A i \in 1..N, j \in 1..N : i < j => at[W[i]] < at[W[j]]

(* Trades that ended are listed by their dates, all of them. *)
LEMMA DatedOrders ==
  ASSUME BookInv, RecordInv, DatesApart, NEW p \in Positions
  PROVE  /\ InOrder(p, Cardinality(Ended(p)), Dated(p))
         /\ Journal(p) = [i \in 1..Cardinality(Ended(p)) |-> order[Dated(p)[i]]]
<1> DEFINE T == Ended(p)
           N == Cardinality(T)
           W == Dated(p)
           below == [t \in T |-> {u \in T : at[u] < at[t]}]
<1>1. IsFiniteSet(T) /\ N \in Nat
  <2>1. T \subseteq Asked
    BY DEF Ended, Asked
  <2>2. IsFiniteSet(T)
    BY <2>1, FS_Subset DEF RecordInv, TradedExist
  <2> QED BY <2>2, FS_CardinalityType
<1>2. \A t \in T : at[t] \in Nat /\ at[t] # 0 /\ t \in Trades
  BY DEF Ended, DatesApart, BookInv, TypeInv, TypeOK
<1>3. below \in [T -> SUBSET T]
  OBVIOUS
<1>4. /\ \A r, s, t \in T : r \in below[s] /\ s \in below[t] => r \in below[t]
      /\ \A r \in T : r \notin below[r]
      /\ \A r, s \in T : r # s => r \in below[s] \/ s \in below[r]
  <2>1. \A r, s \in T : r \in below[s] <=> at[r] < at[s]
    OBVIOUS
  <2>2. \A r, s \in T : at[r] = at[s] => r = s
    BY <1>2 DEF DatesApart
  <2> HIDE DEF below, T
  <2>3. \A r, s, t \in T : r \in below[s] /\ s \in below[t] => r \in below[t]
    BY <1>2, <2>1
  <2>4. \A r \in T : r \notin below[r]
    BY <1>2, <2>1
  <2>5. \A r, s \in T : r # s => r \in below[s] \/ s \in below[r]
    BY <1>2, <2>1, <2>2
  <2> QED BY <2>3, <2>4, <2>5
<1>b. \A t \in T : below[t] = {u \in T : at[u] < at[t]}
  OBVIOUS
<1> HIDE DEF below, T, W
<1>5. /\ \A r \in T : Cardinality(below[r]) \in 0..(N - 1)
      /\ \A r, s \in T : Cardinality(below[r]) = Cardinality(below[s]) => r = s
      /\ \A i \in 0..(N - 1) : \E r \in T : Cardinality(below[r]) = i
  <2> HIDE DEF N
  <2>1. N = Cardinality(T)
    BY DEF N
  <2> QED BY ONLY <1>1, <1>3, <1>4, <2>1, Ranks
<1>6. \A i \in 1..N : W[i] \in T /\ Cardinality(below[W[i]]) = i - 1
  <2> SUFFICES ASSUME NEW i \in 1..N
               PROVE  W[i] \in T /\ Cardinality(below[W[i]]) = i - 1
    OBVIOUS
  <2>1. W[i] = CHOOSE t \in T : Cardinality({u \in T : at[u] < at[t]}) = i - 1
    BY DEF W, Dated, T
  <2>2. i - 1 \in 0..(N - 1)
    BY <1>1
  <2>3. \E t \in T : Cardinality({u \in T : at[u] < at[t]}) = i - 1
    BY <1>5, <1>b, <2>2
  <2>4. W[i] \in T /\ Cardinality({u \in T : at[u] < at[W[i]]}) = i - 1
    BY <2>1, <2>3
  <2> QED BY <1>b, <2>4
<1>7. \A t \in T : \E i \in 1..N : W[i] = t
  <2> SUFFICES ASSUME NEW t \in T PROVE \E i \in 1..N : W[i] = t
    OBVIOUS
  <2>1. Cardinality(below[t]) + 1 \in 1..N /\ (Cardinality(below[t]) + 1) - 1 = Cardinality(below[t])
    BY <1>1, <1>5
  <2>2. Cardinality(below[W[Cardinality(below[t]) + 1]]) = Cardinality(below[t])
    BY <1>6, <2>1
  <2>3. W[Cardinality(below[t]) + 1] = t
    BY <1>5, <1>6, <2>1, <2>2
  <2> QED BY <2>1, <2>3
<1>8. ASSUME NEW i \in 1..N, NEW j \in 1..N, i < j
      PROVE  at[W[i]] < at[W[j]]
  <2>1. W[i] \in T /\ W[j] \in T /\ Cardinality(below[W[i]]) = i - 1 /\ Cardinality(below[W[j]]) = j - 1
    BY <1>6
  <2>2. ASSUME ~(at[W[i]] < at[W[j]])
        PROVE  FALSE
    <3>1. \A u \in T : at[u] < at[W[j]] => at[u] < at[W[i]]
      BY <1>2, <2>1, <2>2
    <3>2. below[W[j]] \subseteq below[W[i]]
      BY <1>b, <2>1, <3>1
    <3>3. IsFiniteSet(below[W[i]])
      <4>1. below[W[i]] \subseteq T
        BY <1>b, <2>1
      <4> QED BY <1>1, <4>1, FS_Subset
    <3>4. Cardinality(below[W[j]]) <= Cardinality(below[W[i]])
      BY <3>2, <3>3, FS_Subset
    <3> QED BY <1>1, <1>8, <2>1, <3>4
  <2> QED BY <2>2
<1>9. W \in [1..N -> T]
  <2> DEFINE c(i) == CHOOSE t \in T : Cardinality({u \in T : at[u] < at[t]}) = i - 1
  <2>1. W = [i \in 1..N |-> c(i)]
    BY DEF W, Dated, N, T
  <2> HIDE DEF c
  <2>2. DOMAIN W = 1..N /\ W = [i \in DOMAIN W |-> W[i]]
    BY ONLY <2>1
  <2> QED BY <1>6, <2>2
<1>10. Journal(p) = [i \in 1..N |-> order[W[i]]]
  BY DEF Journal, W, Dated, N, T, Ended
<1>11. InOrder(p, N, W)
  BY <1>1, <1>7, <1>8, <1>9 DEF InOrder, T
<1> QED BY <1>10, <1>11 DEF N, W, T

-----------------------------------------------------------------------------
(* Trades, lots and rows of a settled position. *)

(* The inductive invariant of the journal. *)
JournalInv == Books /\ LotsSigned /\ Overtaken /\ Matching

(* Its trades are done, asked for or not. *)
LEMMA SettledTrades ==
  ASSUME JournalInv, NEW p \in Positions, Settled(p)
  PROVE  /\ \A t \in Trades : Position(t) = p => pc[t] \in {"new", "refused", "ok"}
         /\ \A t \in Ended(p) : /\ t \in Trades /\ Position(t) = p /\ pc[t] = "ok"
                                /\ at[t] \in Nat /\ at[t] # 0 /\ legs[t] = {}
                                /\ order[t].type \in {"BUY", "SELL"}
                                /\ order[t].qty \in Nat /\ order[t].price \in Nat
<1>1. TypeOK /\ TypeInv /\ MatchInv /\ DatesApart /\ FailuresShow /\ order \in Scenarios
  BY DEF JournalInv, Books, BookInv, TypeInv, TypeOK, StoreTypeOK, RecordInv
<1>2. ASSUME NEW t \in Trades, Position(t) = p PROVE pc[t] \in {"new", "refused", "ok"}
  <2>1. pc[t] \in PC /\ pc[t] \notin Running
    BY <1>1, <1>2 DEF TypeOK, Settled, Quiet
  <2>2. pc[t] # "failed"
    BY <1>1, <1>2 DEF FailuresShow, Settled, Clear
  <2> QED BY <2>1, <2>2 DEF PC
<1>3. ASSUME NEW t \in Ended(p)
      PROVE  /\ t \in Trades /\ Position(t) = p /\ pc[t] = "ok"
             /\ at[t] \in Nat /\ at[t] # 0 /\ legs[t] = {}
             /\ order[t].type \in {"BUY", "SELL"}
             /\ order[t].qty \in Nat /\ order[t].price \in Nat
  <2>1. t \in Trades /\ Position(t) = p /\ pc[t] = "ok"
    BY DEF Ended
  <2>2. at[t] \in Nat /\ at[t] # 0
    BY <1>1, <2>1 DEF TypeOK, DatesApart
  <2>3. legs[t] = {}
    BY <1>1, <2>1 DEF MatchInv
  <2>4. order[t].type \in {"BUY", "SELL"} /\ order[t].qty \in Nat /\ order[t].price \in Nat
    BY <1>1, <2>1, Orders DEF TradeInput
  <2> QED BY <2>1, <2>2, <2>3, <2>4
<1> QED BY <1>2, <1>3

(* Its lots are those of the buys that ended. *)
LEMMA SettledLots ==
  ASSUME JournalInv, NEW p \in Positions, Settled(p)
  PROVE  /\ \A t \in Ended(p) : order[t].type = "BUY" =>
              /\ at[t] \in LotsOf(p) /\ lots[at[t]].trade = t
              /\ lots[at[t]].original = order[t].qty /\ lots[at[t]].price = order[t].price
         /\ \A l \in LotsOf(p) :
              /\ lots[l].trade \in Ended(p) /\ order[lots[l].trade].type = "BUY" /\ at[lots[l].trade] = l
              /\ l \in DOMAIN lots /\ l \in Nat /\ lots[l].position = p
              /\ lots[l].original = order[lots[l].trade].qty /\ lots[l].price = order[lots[l].trade].price
<1>1. TypeInv /\ LotsSigned
  BY DEF JournalInv, Books, BookInv
<1>2. ASSUME NEW t \in Ended(p), order[t].type = "BUY"
      PROVE  /\ at[t] \in LotsOf(p) /\ lots[at[t]].trade = t
             /\ lots[at[t]].original = order[t].qty /\ lots[at[t]].price = order[t].price
  <2>1. t \in Trades /\ Position(t) = p /\ pc[t] = "ok"
    BY DEF Ended
  <2>2. at[t] \in DOMAIN lots /\ lots[at[t]].trade = t
    BY <1>1, <1>2, <2>1 DEF LotsSigned
  <2> QED BY <1>1, <2>1, <2>2 DEF LotsSigned, LotsOf
<1>3. ASSUME NEW l \in LotsOf(p)
      PROVE  /\ lots[l].trade \in Ended(p) /\ order[lots[l].trade].type = "BUY" /\ at[lots[l].trade] = l
             /\ l \in DOMAIN lots /\ l \in Nat /\ lots[l].position = p
             /\ lots[l].original = order[lots[l].trade].qty /\ lots[l].price = order[lots[l].trade].price
  <2>1. l \in DOMAIN lots /\ lots[l].position = p
    BY DEF LotsOf
  <2>2. l \in Nat /\ lots[l].trade \in Trades
    BY <1>1, <2>1, LotFields DEF FifoLot
  <2>3. /\ order[lots[l].trade].type = "BUY" /\ at[lots[l].trade] = l /\ Position(lots[l].trade) = p
        /\ lots[l].original = order[lots[l].trade].qty /\ lots[l].price = order[lots[l].trade].price
        /\ pc[lots[l].trade] \in {"list", "writeAggregates", "ok", "failed"}
    BY <1>1, <2>1 DEF LotsSigned
  <2>4. pc[lots[l].trade] = "ok"
    BY <2>2, <2>3, SettledTrades
  <2> QED BY <2>1, <2>2, <2>3, <2>4 DEF Ended
<1> QED BY <1>2, <1>3

(* Its rows are those of the sales that ended, each with its share of a lot. *)
LEMMA SettledRows ==
  ASSUME JournalInv, NEW p \in Positions, Settled(p)
  PROVE  /\ IsFiniteSet(RowsOf(p)) /\ RowsOf(p) \in SUBSET pnls
         /\ \A r \in RowsOf(p) :
              /\ r.quantity \in Nat /\ r.gross \in Int
              /\ r.trade \in Ended(p) /\ order[r.trade].type = "SELL"
              /\ r.lot \in LotsOf(p) /\ r.at = at[r.trade] /\ r.lot < at[r.trade]
              /\ r.quantity = Share(r.trade, r.lot)
              /\ r.gross = (order[r.trade].price - lots[r.lot].price) * r.quantity
         /\ \A r, s \in RowsOf(p) : r.trade = s.trade /\ r.lot = s.lot => r = s
<1>1. BookInv /\ TypeInv /\ DatesApart /\ Matching /\ RowsOrdered
  BY DEF JournalInv, Books, BookInv
<1>2. IsFiniteSet(RowsOf(p)) /\ RowsOf(p) \in SUBSET pnls
  <2>1. RowsOf(p) \in SUBSET pnls
    BY DEF RowsOf
  <2> QED BY <1>1, <2>1, RowSets
<1>3. ASSUME NEW r \in RowsOf(p)
      PROVE  /\ r.quantity \in Nat /\ r.gross \in Int
             /\ r.trade \in Ended(p) /\ order[r.trade].type = "SELL"
             /\ r.lot \in LotsOf(p) /\ r.at = at[r.trade] /\ r.lot < at[r.trade]
             /\ r.quantity = Share(r.trade, r.lot)
             /\ r.gross = (order[r.trade].price - lots[r.lot].price) * r.quantity
  <2>1. r \in pnls /\ IsRow(r) /\ pc[r.trade] \in Booking /\ Position(r.trade) = p
    BY <1>1 DEF RowsOf, BookInv, RowFacts, Position
  <2>2. /\ r.trade \in Trades /\ r.quantity \in Nat /\ r.gross \in Int /\ r.lot \in DOMAIN lots
        /\ lots[r.lot].position = p /\ order[r.trade].type = "SELL"
        /\ r.gross = (order[r.trade].price - lots[r.lot].price) * r.quantity
    BY <1>1, <2>1, RowIs DEF IsRow
  <2>3. pc[r.trade] = "ok"
    BY <2>1, <2>2, SettledTrades DEF Booking
  <2>4. Took(r.trade) /\ Clear(p)
    BY <2>2, <2>3 DEF Took, Settled
  <2>5. Fifo(r.trade)
    BY <1>1, <2>1, <2>2, <2>4 DEF Matching
  <2>6. r.lot < at[r.trade] /\ r.quantity = Share(r.trade, r.lot)
    BY <2>1, <2>5 DEF Fifo
  <2>7. r.at = at[r.trade]
    BY <1>1, <2>1 DEF DatesApart
  <2>8. r.trade \in Ended(p) /\ r.lot \in LotsOf(p)
    BY <2>1, <2>2, <2>3 DEF Ended, LotsOf
  <2> QED BY <2>2, <2>6, <2>7, <2>8
<1>4. \A r, s \in RowsOf(p) : r.trade = s.trade /\ r.lot = s.lot => r = s
  BY <1>1, <1>2 DEF RowsOrdered
<1> QED BY <1>2, <1>3, <1>4

(* A sale that ended has rows on the lots it shares in, and no others. *)
LEMMA SettledSales ==
  ASSUME JournalInv, NEW p \in Positions, Settled(p), NEW t \in Ended(p), order[t].type = "SELL"
  PROVE  /\ Sold({r \in RowsOf(p) : r.trade = t}) = order[t].qty
         /\ \A l \in LotsOf(p) : l < at[t] => Sold({r \in RowsOf(p) : r.trade = t /\ r.lot = l}) = Share(t, l)
         /\ \A l \in LotsOf(p) : l < at[t] => Held(at[t], l) \in Int
<1>1. BookInv /\ TypeInv /\ FillInv /\ Matching
  BY DEF JournalInv, Books, BookInv
<1>2. t \in Trades /\ Position(t) = p /\ pc[t] = "ok" /\ legs[t] = {}
  BY SettledTrades
<1>3. Sold({r \in RowsOf(p) : r.trade = t}) = order[t].qty
  <2>1. Sold(RowsOfTrade(t)) = order[t].qty
    BY <1>1, <1>2 DEF FillInv, FillOf
  <2>2. RowsOfTrade(t) = {r \in RowsOf(p) : r.trade = t}
    BY <1>2 DEF RowsOfTrade, RowsOf, Position
  <2> QED BY <2>1, <2>2
<1>4. Fifo(t)
  BY <1>1, <1>2 DEF Matching, Took, Settled
<1>5. ASSUME NEW l \in LotsOf(p), l < at[t]
      PROVE  Sold({r \in RowsOf(p) : r.trade = t /\ r.lot = l}) = Share(t, l)
  <2> DEFINE X == {r \in RowsOf(p) : r.trade = t /\ r.lot = l}
  <2>1. l \in Older(t)
    BY <1>2, <1>5 DEF Older
  <2>2. CASE X = {}
    <3>1. \A r \in pnls : r.trade = t => r \in RowsOf(p)
      BY <1>2 DEF RowsOf, Position
    <3>2. ~\E r \in pnls : r.trade = t /\ r.lot = l
      BY <2>2, <3>1
    <3>3. Share(t, l) = 0
      BY <1>2, <1>4, <2>1, <3>2 DEF Fifo
    <3> QED BY <2>2, <3>3, SoldNothing
  <2>3. CASE X # {}
    <3>1. PICK r \in RowsOf(p) : r.trade = t /\ r.lot = l
      BY <2>3
    <3>2. X = {r}
      BY <3>1, SettledRows
    <3>3. r.quantity = Share(t, l) /\ r.quantity \in Nat
      BY <3>1, SettledRows
    <3>4. Sold({r}) = r.quantity
      <4> DEFINE f == [x \in {r} |-> x.quantity]
      <4>1. f \in [{r} -> Int] /\ f[r] = r.quantity
        BY <3>3
      <4>2. Sold({r}) = Sum(f)
        BY DEF Sold
      <4> QED BY <4>1, <4>2, SumSingle
    <3> QED BY <3>2, <3>3, <3>4
  <2> QED BY <2>2, <2>3
<1>6. ASSUME NEW l \in LotsOf(p), l < at[t]
      PROVE  Held(at[t], l) \in Int
  <2>1. SoldBefore(at[t], l) \in SUBSET pnls
    BY DEF SoldBefore
  <2>2. Sold(SoldBefore(at[t], l)) \in Nat
    BY <1>1, <2>1, RowSets
  <2>3. lots[l].original \in Nat
    BY <1>1, LotFields DEF LotsOf
  <2> QED BY <2>2, <2>3 DEF Held
<1> QED BY <1>3, <1>5, <1>6

-----------------------------------------------------------------------------
(* The rows of a settled position tell the story of its journal. *)

(* The place of each trade in the order W. *)
Ranked(p, N, W, k) ==
  /\ k \in [Ended(p) -> 1..N]
  /\ \A t \in Ended(p) : W[k[t]] = t
  /\ \A i \in 1..N : k[W[i]] = i
  /\ \A t, u \in Ended(p) : k[t] < k[u] <=> at[t] < at[u]

(* Every trade has a place in the order. *)
LEMMA RankExists ==
  ASSUME NEW p, NEW N, NEW W, InOrder(p, N, W), \A t \in Ended(p) : at[t] \in Nat
  PROVE  Ranked(p, N, W, [t \in Ended(p) |-> CHOOSE i \in 1..N : W[i] = t])
<1> DEFINE k == [t \in Ended(p) |-> CHOOSE i \in 1..N : W[i] = t]
<1>1. /\ N \in Nat /\ \A i \in 1..N : W[i] \in Ended(p)
      /\ \A t \in Ended(p) : \E i \in 1..N : W[i] = t
      /\ \A i \in 1..N, j \in 1..N : i < j => at[W[i]] < at[W[j]]
  BY DEF InOrder
<1>2. \A t \in Ended(p) : k[t] \in 1..N /\ W[k[t]] = t
  BY <1>1
<1>3. k \in [Ended(p) -> 1..N]
  BY <1>1
<1> HIDE DEF k
<1>4. \A i, j \in 1..N : W[i] = W[j] => i = j
  <2> SUFFICES ASSUME NEW i \in 1..N, NEW j \in 1..N, W[i] = W[j] PROVE i = j
    OBVIOUS
  <2>1. i \in Int /\ j \in Int /\ at[W[i]] \in Nat
    BY <1>1
  <2> QED BY <1>1, <2>1
<1>5. \A i \in 1..N : k[W[i]] = i
  BY <1>1, <1>2, <1>4
<1>6. \A t, u \in Ended(p) : k[t] < k[u] <=> at[t] < at[u]
  <2> SUFFICES ASSUME NEW t \in Ended(p), NEW u \in Ended(p) PROVE k[t] < k[u] <=> at[t] < at[u]
    OBVIOUS
  <2>1. k[t] \in Int /\ k[u] \in Int /\ at[t] \in Int /\ at[u] \in Int
    BY <1>2
  <2>2. k[t] < k[u] => at[t] < at[u]
    BY <1>1, <1>2
  <2>3. k[u] < k[t] => at[u] < at[t]
    BY <1>1, <1>2
  <2>4. k[t] = k[u] => at[t] = at[u]
    BY <1>2
  <2> QED BY ONLY <2>1, <2>2, <2>3, <2>4
<1>7. Ranked(p, N, W, k)
  BY <1>2, <1>3, <1>5, <1>6 DEF Ranked
<1> QED BY <1>7 DEF k

(* A journal in order, with the ranks of its trades and of its rows. *)
Told(p, N, W, k, o, b, s) ==
  /\ InOrder(p, N, W) /\ Ranked(p, N, W, k)
  /\ o = [i \in 1..N |-> order[W[i]]]
  /\ b = [r \in RowsOf(p) |-> k[lots[r.lot].trade]]
  /\ s = [r \in RowsOf(p) |-> k[r.trade]]

(* Places, trades and lots correspond. *)
LEMMA ToldPlaces ==
  ASSUME JournalInv, NEW p \in Positions, Settled(p),
         NEW N, NEW W, NEW k, NEW o, NEW b, NEW s, Told(p, N, W, k, o, b, s)
  PROVE  /\ N \in Nat /\ DOMAIN o = 1..N /\ Len(o) = N
         /\ \A i \in 1..N : W[i] \in Ended(p) /\ o[i] = order[W[i]] /\ at[W[i]] \in Nat
                            /\ o[i].type \in {"BUY", "SELL"} /\ o[i].qty \in Nat /\ o[i].price \in Nat
         /\ \A i, j \in 1..N : i < j <=> at[W[i]] < at[W[j]]
         /\ \A i \in Bought(o) : /\ i \in 1..N /\ at[W[i]] \in LotsOf(p) /\ lots[at[W[i]]].trade = W[i]
                                 /\ lots[at[W[i]]].original = o[i].qty /\ lots[at[W[i]]].price = o[i].price
         /\ \A l \in LotsOf(p) : k[lots[l].trade] \in Bought(o) /\ at[W[k[lots[l].trade]]] = l
<1>1. /\ InOrder(p, N, W) /\ Ranked(p, N, W, k)
      /\ o = [i \in 1..N |-> order[W[i]]]
  BY DEF Told
<1>2. N \in Nat /\ DOMAIN o = 1..N /\ Len(o) = N
  BY <1>1 DEF InOrder
<1>3. \A i \in 1..N : W[i] \in Ended(p) /\ o[i] = order[W[i]]
  BY <1>1 DEF InOrder
<1>4. \A i \in 1..N : at[W[i]] \in Nat /\ o[i].type \in {"BUY", "SELL"} /\ o[i].qty \in Nat /\ o[i].price \in Nat
  BY <1>3, SettledTrades
<1>5. ASSUME NEW i \in 1..N, NEW j \in 1..N
      PROVE  i < j <=> at[W[i]] < at[W[j]]
  <2>1. W[i] \in Ended(p) /\ W[j] \in Ended(p) /\ k[W[i]] = i /\ k[W[j]] = j
    BY <1>1, <1>3 DEF Ranked
  <2> QED BY <1>1, <2>1 DEF Ranked
<1>6. ASSUME NEW i \in Bought(o)
      PROVE  /\ i \in 1..N /\ at[W[i]] \in LotsOf(p) /\ lots[at[W[i]]].trade = W[i]
             /\ lots[at[W[i]]].original = o[i].qty /\ lots[at[W[i]]].price = o[i].price
  <2>1. i \in 1..N /\ W[i] \in Ended(p) /\ o[i] = order[W[i]] /\ order[W[i]].type = "BUY"
    BY <1>2, <1>3 DEF Bought
  <2> QED BY <2>1, SettledLots
<1>7. ASSUME NEW l \in LotsOf(p)
      PROVE  k[lots[l].trade] \in Bought(o) /\ at[W[k[lots[l].trade]]] = l
  <2>1. lots[l].trade \in Ended(p) /\ order[lots[l].trade].type = "BUY" /\ at[lots[l].trade] = l
    BY SettledLots
  <2>2. k[lots[l].trade] \in 1..N /\ W[k[lots[l].trade]] = lots[l].trade
    BY <1>1, <2>1 DEF Ranked
  <2> QED BY <1>2, <1>3, <2>1, <2>2 DEF Bought
<1> QED BY <1>2, <1>3, <1>4, <1>5, <1>6, <1>7

(* And the rows. *)
LEMMA ToldRows ==
  ASSUME JournalInv, NEW p \in Positions, Settled(p),
         NEW N, NEW W, NEW k, NEW o, NEW b, NEW s, Told(p, N, W, k, o, b, s)
  PROVE  /\ b \in [RowsOf(p) -> 1..N] /\ s \in [RowsOf(p) -> 1..N]
         /\ \A r \in RowsOf(p) :
              /\ b[r] \in Bought(o) /\ s[r] \in 1..N /\ s[r] \notin Bought(o) /\ b[r] < s[r]
              /\ r.gross = (o[s[r]].price - o[b[r]].price) * r.quantity
              /\ \A n \in 1..N : s[r] = n <=> r.trade = W[n]
              /\ \A i \in Bought(o) : b[r] = i <=> r.lot = at[W[i]]
              /\ \A n \in 1..N : s[r] <= n - 1 <=> r.at < at[W[n]]
<1>1. /\ Ranked(p, N, W, k)
      /\ b = [r \in RowsOf(p) |-> k[lots[r.lot].trade]]
      /\ s = [r \in RowsOf(p) |-> k[r.trade]]
  BY DEF Told
<1>2. ASSUME NEW r \in RowsOf(p)
      PROVE  /\ b[r] \in Bought(o) /\ s[r] \in 1..N /\ s[r] \notin Bought(o) /\ b[r] < s[r]
             /\ r.gross = (o[s[r]].price - o[b[r]].price) * r.quantity
             /\ \A n \in 1..N : s[r] = n <=> r.trade = W[n]
             /\ \A i \in Bought(o) : b[r] = i <=> r.lot = at[W[i]]
             /\ \A n \in 1..N : s[r] <= n - 1 <=> r.at < at[W[n]]
  <2>1. /\ r.trade \in Ended(p) /\ order[r.trade].type = "SELL"
        /\ r.lot \in LotsOf(p) /\ r.at = at[r.trade] /\ r.lot < at[r.trade]
        /\ r.gross = (order[r.trade].price - lots[r.lot].price) * r.quantity
    BY SettledRows
  <2>2. s[r] \in 1..N /\ W[s[r]] = r.trade
    BY <1>1, <2>1 DEF Ranked
  <2>3. b[r] \in Bought(o) /\ at[W[b[r]]] = r.lot
    <3>1. b[r] = k[lots[r.lot].trade]
      BY <1>1
    <3>2. \A l \in LotsOf(p) : k[lots[l].trade] \in Bought(o) /\ at[W[k[lots[l].trade]]] = l
      BY ToldPlaces
    <3> QED BY ONLY <2>1, <3>1, <3>2
  <2>4. b[r] \in 1..N /\ lots[r.lot].price = o[b[r]].price
    BY <2>3, ToldPlaces
  <2>5. o[s[r]] = order[r.trade] /\ s[r] \notin Bought(o)
    <3>1. o[s[r]] = order[r.trade]
      BY <2>2, ToldPlaces
    <3> QED BY <2>1, <3>1 DEF Bought
  <2>6. b[r] < s[r]
    BY <2>1, <2>2, <2>3, <2>4, ToldPlaces
  <2>7. r.gross = (o[s[r]].price - o[b[r]].price) * r.quantity
    BY <2>1, <2>4, <2>5
  <2>8. \A n \in 1..N : s[r] = n <=> r.trade = W[n]
    BY <1>1, <2>2 DEF Ranked
  <2>9. ASSUME NEW i \in Bought(o) PROVE b[r] = i <=> r.lot = at[W[i]]
    <3>1. i \in 1..N /\ lots[at[W[i]]].trade = W[i]
      BY ToldPlaces
    <3>2. k[W[i]] = i
      BY <1>1, <3>1 DEF Ranked
    <3>3. b[r] = k[lots[r.lot].trade]
      BY <1>1
    <3> QED BY <2>3, <3>1, <3>2, <3>3
  <2>10. ASSUME NEW n \in 1..N PROVE s[r] <= n - 1 <=> r.at < at[W[n]]
    <3>1. s[r] < n <=> at[W[s[r]]] < at[W[n]]
      BY <2>2, ToldPlaces
    <3>2. s[r] \in Int /\ n \in Int
      BY <2>2
    <3> QED BY <2>1, <2>2, <3>1, <3>2
  <2> QED BY <2>2, <2>3, <2>5, <2>6, <2>7, <2>8, <2>9, <2>10
<1>3. \A r \in RowsOf(p) : b[r] \in 1..N /\ s[r] \in 1..N
  BY <1>2, ToldPlaces
<1>4. b \in [RowsOf(p) -> 1..N] /\ s \in [RowsOf(p) -> 1..N]
  BY <1>1, <1>3
<1> QED BY <1>2, <1>4

(* The queue before a sale holds what the sale found in the lots. *)
LEMMA ToldRest ==
  ASSUME JournalInv, NEW p \in Positions, Settled(p),
         NEW N, NEW W, NEW k, NEW o, NEW b, NEW s, Told(p, N, W, k, o, b, s),
         NEW n \in 1..N
  PROVE  \A i \in 1..N : Rest(o, RowsOf(p), b, s, n - 1)[i] =
           IF i \in Bought(o) /\ i < n THEN Held(at[W[n]], at[W[i]]) ELSE 0
<1> SUFFICES ASSUME NEW i \in 1..N
             PROVE  Rest(o, RowsOf(p), b, s, n - 1)[i] =
                      IF i \in Bought(o) /\ i < n THEN Held(at[W[n]], at[W[i]]) ELSE 0
  OBVIOUS
<1>1. N \in Nat /\ DOMAIN o = 1..N /\ n \in Int /\ i \in Int
  BY ToldPlaces
<1>2. i <= n - 1 <=> i < n
  BY <1>1
<1>3. Rest(o, RowsOf(p), b, s, n - 1)[i] =
        IF i \in Bought(o) /\ i < n THEN o[i].qty - Sold(Through(RowsOf(p), b, s, n - 1, i)) ELSE 0
  BY <1>1, <1>2 DEF Rest
<1>4. ASSUME i \in Bought(o)
      PROVE  o[i].qty - Sold(Through(RowsOf(p), b, s, n - 1, i)) = Held(at[W[n]], at[W[i]])
  <2>1. lots[at[W[i]]].original = o[i].qty /\ at[W[i]] \in LotsOf(p)
    BY <1>4, ToldPlaces
  <2>2. \A r \in RowsOf(p) : b[r] = i /\ s[r] <= n - 1 <=> r.lot = at[W[i]] /\ r.at < at[W[n]]
    <3> SUFFICES ASSUME NEW r \in RowsOf(p)
                 PROVE  b[r] = i /\ s[r] <= n - 1 <=> r.lot = at[W[i]] /\ r.at < at[W[n]]
      OBVIOUS
    <3>1. b[r] = i <=> r.lot = at[W[i]]
      BY <1>4, ToldRows
    <3>2. s[r] <= n - 1 <=> r.at < at[W[n]]
      BY ToldRows
    <3> QED BY ONLY <3>1, <3>2
  <2>3. \A r \in pnls : r.lot = at[W[i]] => r \in RowsOf(p)
    <3> SUFFICES ASSUME NEW r \in pnls, r.lot = at[W[i]] PROVE r \in RowsOf(p)
      OBVIOUS
    <3>1. IsRow(r)
      BY DEF JournalInv, Books, BookInv, RowFacts
    <3> QED BY <2>1, <3>1 DEF IsRow, LotsOf, RowsOf, Position
  <2>4. RowsOf(p) \subseteq pnls
    BY DEF RowsOf
  <2>5. Through(RowsOf(p), b, s, n - 1, i) = SoldBefore(at[W[n]], at[W[i]])
    BY ONLY <2>2, <2>3, <2>4 DEF Through, SoldBefore
  <2> QED BY <2>1, <2>5 DEF Held
<1> QED BY <1>3, <1>4

(* What is ahead of a purchase in the queue is what the older lots held. *)
LEMMA ToldAhead ==
  ASSUME JournalInv, NEW p \in Positions, Settled(p),
         NEW N, NEW W, NEW k, NEW o, NEW b, NEW s, Told(p, N, W, k, o, b, s),
         NEW n \in 1..N, n \notin Bought(o), NEW i \in Bought(o), i < n
  PROVE  /\ Ahead(Rest(o, RowsOf(p), b, s, n - 1), i)
              = Sum([m \in {l \in Older(W[n]) : l < at[W[i]]} |-> Held(at[W[n]], m)])
         /\ Ahead(Rest(o, RowsOf(p), b, s, n - 1), i) \in Int
<1> DEFINE left == Rest(o, RowsOf(p), b, s, n - 1)
           S == 1..(i - 1)
           K == {j \in S : j \in Bought(o)}
           M == {l \in Older(W[n]) : l < at[W[i]]}
           f == [j \in S |-> left[j]]
           g == [j \in K |-> Held(at[W[n]], at[W[j]])]
           h == [j \in K |-> at[W[j]]]
           e == [m \in M |-> Held(at[W[n]], m)]
<1>1. /\ N \in Nat /\ i \in 1..N /\ i \in Int /\ n \in Int
      /\ W[n] \in Ended(p) /\ order[W[n]].type = "SELL" /\ Position(W[n]) = p
  <2>1. N \in Nat /\ i \in 1..N /\ W[n] \in Ended(p) /\ o[n] = order[W[n]] /\ o[n].type \in {"BUY", "SELL"}
        /\ DOMAIN o = 1..N
    BY ToldPlaces
  <2>2. order[W[n]].type = "SELL"
    BY <2>1 DEF Bought
  <2>3. Position(W[n]) = p
    BY <2>1 DEF Ended
  <2> QED BY <2>1, <2>2, <2>3
<1>2. \A j \in S : j \in 1..N /\ j < n /\ j < i
  BY <1>1
<1>3. \A j \in S : left[j] = IF j \in Bought(o) THEN Held(at[W[n]], at[W[j]]) ELSE 0
  BY <1>2, ToldRest
<1>4. \A j \in K : at[W[j]] \in LotsOf(p) /\ at[W[j]] < at[W[n]] /\ at[W[j]] < at[W[i]]
  <2> SUFFICES ASSUME NEW j \in K PROVE at[W[j]] \in LotsOf(p) /\ at[W[j]] < at[W[n]] /\ at[W[j]] < at[W[i]]
    OBVIOUS
  <2>1. j \in Bought(o) /\ j \in 1..N /\ j < n /\ j < i
    BY <1>2
  <2> QED BY <1>1, <2>1, ToldPlaces
<1>5. \A j \in K : Held(at[W[n]], at[W[j]]) \in Int
  BY <1>1, <1>4, SettledSales
<1>6. IsFiniteSet(S) /\ K \in SUBSET S /\ IsFiniteSet(K)
  <2>1. IsFiniteSet(S)
    BY <1>1, FS_Interval
  <2>2. K \in SUBSET S
    OBVIOUS
  <2> HIDE DEF S, K
  <2> QED BY ONLY <2>1, <2>2, FS_Subset
<1>7. Padded(S, K, f, g)
  <2>1. f \in [S -> Int]
    BY <1>3, <1>5
  <2>2. g \in [K -> Int]
    BY <1>5
  <2>3. \A j \in K : g[j] = f[j]
    BY <1>3
  <2>4. \A j \in S \ K : f[j] = 0
    BY <1>3
  <2> HIDE DEF f, g, S, K
  <2> QED BY <1>6, <2>1, <2>2, <2>3, <2>4 DEF Padded
<1>8. SameSums(K, M, h, g, e)
  <2>1. h \in [K -> M]
    <3>1. \A j \in K : at[W[j]] \in M
      BY <1>1, <1>4 DEF Older
    <3> QED BY <3>1
  <2>2. \A m \in M : \E j \in K : h[j] = m
    <3> SUFFICES ASSUME NEW m \in M PROVE \E j \in K : h[j] = m
      OBVIOUS
    <3>1. m \in LotsOf(p) /\ m < at[W[i]]
      BY <1>1 DEF Older
    <3>2. PICK j \in Bought(o) : at[W[j]] = m
      BY <3>1, ToldPlaces
    <3>3. j \in 1..N
      BY ToldPlaces
    <3>4. j < i
      BY <1>1, <3>1, <3>2, <3>3, ToldPlaces
    <3>5. j \in K
      BY <1>1, <3>3, <3>4
    <3> QED BY <3>2, <3>5
  <2>3. \A x, y \in K : h[x] = h[y] => x = y
    <3> SUFFICES ASSUME NEW x \in K, NEW y \in K, h[x] = h[y] PROVE x = y
      OBVIOUS
    <3>1. x \in 1..N /\ y \in 1..N /\ x \in Int /\ y \in Int
      BY <1>2
    <3>2. at[W[x]] = at[W[y]] /\ at[W[x]] \in Nat /\ at[W[y]] \in Nat
      BY <3>1, ToldPlaces
    <3>3. (x < y <=> at[W[x]] < at[W[y]]) /\ (y < x <=> at[W[y]] < at[W[x]])
      BY <3>1, ToldPlaces
    <3> QED BY ONLY <3>1, <3>2, <3>3
  <2>4. g \in [K -> Int]
    BY <1>5
  <2>5. \A m \in M : Held(at[W[n]], m) \in Int
    BY <1>1, <1>4, <1>5, <2>2
  <2>6. e \in [M -> Int]
    BY <2>5
  <2>7. \A x \in K : g[x] = e[h[x]]
    BY <2>1
  <2> HIDE DEF g, h, e, K, M
  <2> QED BY <1>6, <2>1, <2>2, <2>3, <2>4, <2>6, <2>7 DEF SameSums
<1>9. Sum(f) = Sum(g) /\ Sum(e) = Sum(g)
  <2> HIDE DEF f, g, e, h, S, K, M
  <2> QED BY ONLY <1>7, <1>8, PaddedSums, SameSumsAgree
<1>10. Sum(g) \in Int
  <2>1. g \in [K -> Int]
    BY <1>5
  <2> HIDE DEF g, K
  <2> QED BY <1>6, <2>1, SumType
<1>11. Ahead(left, i) = Sum(f)
  BY DEF Ahead
<1> HIDE DEF f, g, h
<1> QED BY <1>9, <1>10, <1>11

(* A purchase is matched as its lot was shared. *)
LEMMA ToldMatches ==
  ASSUME JournalInv, NEW p \in Positions, Settled(p),
         NEW N, NEW W, NEW k, NEW o, NEW b, NEW s, Told(p, N, W, k, o, b, s),
         NEW n \in 1..N, n \notin Bought(o), NEW i \in Bought(o), i < n
  PROVE  Sold(OfPair(RowsOf(p), b, s, n, i)) = Matched(Rest(o, RowsOf(p), b, s, n - 1), o[n].qty, i)
<1> DEFINE left == Rest(o, RowsOf(p), b, s, n - 1)
           t == W[n]
           l == at[W[i]]
           older == Sum([m \in {x \in Older(t) : x < l} |-> Held(at[t], m)])
<1>1. /\ N \in Nat /\ i \in 1..N /\ t \in Ended(p) /\ o[n] = order[t] /\ o[n].qty \in Nat
      /\ o[n].type \in {"BUY", "SELL"} /\ DOMAIN o = 1..N /\ l \in LotsOf(p)
  BY ToldPlaces
<1>2. order[t].type = "SELL" /\ l < at[t]
  <2>1. order[t].type = "SELL"
    BY <1>1 DEF Bought
  <2>2. l < at[t]
    BY <1>1, ToldPlaces
  <2> QED BY <2>1, <2>2
<1>3. OfPair(RowsOf(p), b, s, n, i) = {r \in RowsOf(p) : r.trade = t /\ r.lot = l}
  <2>1. \A r \in RowsOf(p) : (s[r] = n <=> r.trade = t) /\ (b[r] = i <=> r.lot = l)
    BY ToldRows
  <2> HIDE DEF t, l
  <2> QED BY ONLY <2>1 DEF OfPair
<1>4. Sold({r \in RowsOf(p) : r.trade = t /\ r.lot = l}) = Share(t, l) /\ Held(at[t], l) \in Int
  BY <1>1, <1>2, SettledSales
<1>5. Ahead(left, i) = older /\ Ahead(left, i) \in Int
  BY ToldAhead
<1>6. left[i] = Held(at[t], l)
  BY <1>1, ToldRest
<1>7. Share(t, l) = IF order[t].qty - older <= 0 THEN 0 ELSE Smaller(Held(at[t], l), order[t].qty - older)
  BY DEF Share, Wants
<1> HIDE DEF left, older, t, l
<1>8. order[t].qty - older <= 0 <=> o[n].qty <= Ahead(left, i)
  BY <1>1, <1>5
<1>9. Matched(left, o[n].qty, i) =
        IF o[n].qty <= Ahead(left, i) THEN 0 ELSE Smaller(left[i], o[n].qty - Ahead(left, i))
  BY DEF Matched
<1>10. Matched(left, o[n].qty, i) = Share(t, l)
  BY ONLY <1>1, <1>5, <1>6, <1>7, <1>8, <1>9
<1> QED BY <1>3, <1>4, <1>10 DEF left

(* All told. *)
LEMMA ToldStory ==
  ASSUME JournalInv, NEW p \in Positions, Settled(p),
         NEW N, NEW W, NEW k, NEW o, NEW b, NEW s, Told(p, N, W, k, o, b, s)
  PROVE  Story(N, o, RowsOf(p), b, s)
<1> DEFINE R == RowsOf(p)
<1>1. N \in Nat /\ DOMAIN o = 1..N /\ Len(o) = N
  BY ToldPlaces
<1>2. \A i \in 1..N : o[i].qty \in Int /\ o[i].price \in Int
  BY ToldPlaces
<1>3. IsFiniteSet(R) /\ \A r \in R : r.quantity \in Nat
  BY SettledRows
<1>4. b \in [R -> 1..N] /\ s \in [R -> 1..N]
  BY ToldRows
<1>5. \A r \in R : b[r] \in Bought(o) /\ s[r] \notin Bought(o) /\ b[r] < s[r]
  BY ToldRows
<1>6. \A r \in R : r.gross = (o[s[r]].price - o[b[r]].price) * r.quantity
  BY ToldRows
<1>7. ASSUME NEW n \in 1..N, n \notin Bought(o)
      PROVE  Sold({r \in R : s[r] = n}) = o[n].qty
  <2>1. W[n] \in Ended(p) /\ o[n] = order[W[n]] /\ o[n].type \in {"BUY", "SELL"}
    BY ToldPlaces
  <2>2. order[W[n]].type = "SELL"
    BY <1>1, <1>7, <2>1 DEF Bought
  <2>3. \A r \in R : s[r] = n <=> r.trade = W[n]
    BY ToldRows
  <2>4. {r \in R : s[r] = n} = {r \in R : r.trade = W[n]}
    BY ONLY <2>3
  <2> QED BY <2>1, <2>2, <2>4, SettledSales
<1>8. \A n \in 1..N, i \in Bought(o) : n \notin Bought(o) /\ i < n =>
        Sold(OfPair(R, b, s, n, i)) = Matched(Rest(o, R, b, s, n - 1), o[n].qty, i)
  BY ToldMatches
<1> HIDE DEF R
<1>9. Story(N, o, R, b, s)
  BY ONLY <1>1, <1>2, <1>3, <1>4, <1>5, <1>6, <1>7, <1>8 DEF Story
<1> QED BY <1>9 DEF R

(* The lots hold what the story leaves of the purchases. *)
LEMMA SettledRemaining ==
  ASSUME JournalInv, NEW p \in Positions, Settled(p),
         NEW N, NEW W, NEW k, NEW o, NEW b, NEW s, Told(p, N, W, k, o, b, s),
         NEW i \in Bought(o)
  PROVE  Kept(o, RowsOf(p), b, i) = lots[at[W[i]]].remaining
<1>1. at[W[i]] \in LotsOf(p) /\ lots[at[W[i]]].original = o[i].qty
  BY ToldPlaces
<1>2. at[W[i]] \in DOMAIN lots /\ lots[at[W[i]]].position = p
  BY <1>1 DEF LotsOf
<1>3. "lots" \notin off[p] /\ TypeInv /\ BookInv /\ LotsConserved
  BY DEF Settled, Clear, JournalInv, Books, Conserve, BookInv
<1>4. lots[at[W[i]]].original = lots[at[W[i]]].remaining + Sold(CountedOn(at[W[i]]))
  BY <1>2, <1>3, LotsConservedIs
<1>5. CountedOn(at[W[i]]) = RowsAt(RowsOf(p), b, i)
  <2>1. \A r \in RowsOf(p) : b[r] = i <=> r.lot = at[W[i]]
    BY ToldRows
  <2>2. \A r \in pnls : r.lot = at[W[i]] => r \in RowsOf(p)
    <3> SUFFICES ASSUME NEW r \in pnls, r.lot = at[W[i]] PROVE r \in RowsOf(p)
      OBVIOUS
    <3>1. IsRow(r)
      BY <1>3 DEF BookInv, RowFacts
    <3> QED BY <1>2, <3>1 DEF IsRow, RowsOf, Position
  <2>3. \A r \in RowsOf(p) : r \in pnls /\ pc[r.trade] # "update"
    <3> SUFFICES ASSUME NEW r \in RowsOf(p) PROVE r \in pnls /\ pc[r.trade] # "update"
      OBVIOUS
    <3>1. r.trade \in Ended(p)
      BY SettledRows
    <3> QED BY <3>1 DEF Ended, RowsOf
  <2> QED BY ONLY <2>1, <2>2, <2>3 DEF CountedOn, RowsAt
<1>6. Sold(CountedOn(at[W[i]])) \in Nat
  <2>1. CountedOn(at[W[i]]) \in SUBSET pnls
    BY DEF CountedOn
  <2> QED BY <1>3, <2>1, RowSets
<1>7. lots[at[W[i]]].remaining \in Nat
  BY <1>2, <1>3, LotFields
<1> QED BY ONLY <1>1, <1>4, <1>5, <1>6, <1>7 DEF Kept

(* A column of the purchases adds up to the same column of the active lots, *)
(* where a lot without shares has nothing in it.                            *)
LEMMA SettledColumn ==
  ASSUME JournalInv, NEW p \in Positions, Settled(p),
         NEW N, NEW W, NEW k, NEW o, NEW b, NEW s, Told(p, N, W, k, o, b, s),
         NEW col, col \in [LotsOf(p) -> Int], \A l \in LotsOf(p) : lots[l].remaining = 0 => col[l] = 0
  PROVE  Sum([i \in Bought(o) |-> col[at[W[i]]]]) = Sum([l \in DOMAIN ListActiveLots(p) |-> col[l]])
<1> DEFINE B == Bought(o)
           L == LotsOf(p)
           A == DOMAIN ListActiveLots(p)
           h == [i \in B |-> at[W[i]]]
           f == [i \in B |-> col[at[W[i]]]]
           g == [l \in A |-> col[l]]
<1>1. TypeInv /\ N \in Nat /\ B \subseteq 1..N
  BY ToldPlaces DEF JournalInv, Books, BookInv
<1>2. IsFiniteSet(B)
  <2>1. IsFiniteSet(1..N)
    BY <1>1, FS_Interval
  <2> HIDE DEF B
  <2> QED BY ONLY <1>1, <2>1, FS_Subset
<1>3. A \in SUBSET L /\ \A l \in L \ A : lots[l].remaining = 0
  <2>1. A = {l \in DOMAIN lots : lots[l].position = p /\ lots[l].remaining > 0}
    BY <1>1, ActiveLots
  <2>2. \A l \in L : l \in DOMAIN lots /\ lots[l].position = p /\ lots[l].remaining \in Nat
    BY <1>1, LotFields DEF LotsOf
  <2> QED BY <2>1, <2>2 DEF LotsOf
<1>4. IsFiniteSet(L)
  <2>1. IsFiniteSet(DOMAIN lots)
    BY <1>1, ActiveLots
  <2>2. L \subseteq DOMAIN lots
    BY DEF LotsOf
  <2> HIDE DEF L
  <2> QED BY ONLY <2>1, <2>2, FS_Subset
<1>5. Padded(L, A, col, g)
  <2>1. g \in [A -> Int] /\ \A l \in A : g[l] = col[l]
    BY <1>3
  <2>2. \A l \in L \ A : col[l] = 0
    BY <1>3
  <2> HIDE DEF L, A, g
  <2> QED BY <1>3, <1>4, <2>1, <2>2 DEF Padded, L
<1>6. SameSums(B, L, h, f, col)
  <2>1. h \in [B -> L]
    BY ToldPlaces
  <2>2. \A l \in L : \E i \in B : h[i] = l
    <3> SUFFICES ASSUME NEW l \in L PROVE \E i \in B : h[i] = l
      OBVIOUS
    <3>1. k[lots[l].trade] \in B /\ at[W[k[lots[l].trade]]] = l
      BY ToldPlaces
    <3> QED BY <3>1
  <2>3. \A x, y \in B : h[x] = h[y] => x = y
    <3> SUFFICES ASSUME NEW x \in B, NEW y \in B, h[x] = h[y] PROVE x = y
      OBVIOUS
    <3>1. x \in 1..N /\ y \in 1..N /\ x \in Int /\ y \in Int
      BY <1>1
    <3>2. at[W[x]] = at[W[y]] /\ at[W[x]] \in Nat /\ at[W[y]] \in Nat
      BY <3>1, ToldPlaces
    <3>3. (x < y <=> at[W[x]] < at[W[y]]) /\ (y < x <=> at[W[y]] < at[W[x]])
      BY <3>1, ToldPlaces
    <3> QED BY ONLY <3>1, <3>2, <3>3
  <2>4. f \in [B -> Int]
    BY <2>1
  <2>5. \A x \in B : f[x] = col[h[x]]
    OBVIOUS
  <2> HIDE DEF B, L, h, f
  <2> QED BY <1>2, <2>1, <2>2, <2>3, <2>4, <2>5 DEF SameSums, L
<1>7. Sum(f) = Sum(g)
  <2>1. Sum(col) = Sum(f)
    <3> HIDE DEF B, L, h, f
    <3> QED BY ONLY <1>6, SameSumsAgree
  <2>2. Sum(col) = Sum(g)
    <3> HIDE DEF A, L, g
    <3> QED BY ONLY <1>5, PaddedSums
  <2> QED BY ONLY <2>1, <2>2
<1> QED BY <1>7

(* The journal of a settled position, against its books. *)
LEMMA SettledJournal ==
  ASSUME JournalInv, NEW p \in Positions, Settled(p)
  PROVE  LET j == CalculatePnL(Journal(p), Price[p])
             agg == RecalculatePositionFromLots(ListActiveLots(p))
         IN  /\ j.realized = Sum([r \in RowsOf(p) |-> r.gross])
             /\ j.remaining = agg.quantity /\ j.cost = agg.cost
             /\ j.bought - j.sold = j.remaining
<1> DEFINE N == Cardinality(Ended(p))
           W == Dated(p)
           k == [t \in Ended(p) |-> CHOOSE i \in 1..N : W[i] = t]
           o == Journal(p)
           b == [r \in RowsOf(p) |-> k[lots[r.lot].trade]]
           s == [r \in RowsOf(p) |-> k[r.trade]]
           j == CalculatePnL(o, Price[p])
           A == ListActiveLots(p)
           agg == RecalculatePositionFromLots(A)
<1>1. BookInv /\ TypeInv /\ RecordInv /\ DatesApart
  BY DEF JournalInv, Books, BookInv
<1>2. InOrder(p, N, W) /\ o = [i \in 1..N |-> order[W[i]]]
  BY <1>1, DatedOrders
<1>3. Ranked(p, N, W, k)
  <2>1. \A t \in Ended(p) : at[t] \in Nat
    BY SettledTrades
  <2> HIDE DEF N, W
  <2> QED BY <1>2, <2>1, RankExists
<1>4. Told(p, N, W, k, o, b, s)
  <2> HIDE DEF N, W, k, o
  <2> QED BY <1>2, <1>3 DEF Told
<1> HIDE DEF N, W, k, o, b, s
<1>5. Story(N, o, RowsOf(p), b, s)
  BY <1>4, ToldStory
<1>6. j.realized = Sum([r \in RowsOf(p) |-> r.gross])
  BY <1>5, StoryRealized
<1>7. /\ j.remaining = Sum([i \in Bought(o) |-> Kept(o, RowsOf(p), b, i)])
      /\ j.cost = Sum([i \in Bought(o) |-> Kept(o, RowsOf(p), b, i) * o[i].price])
      /\ j.bought - j.sold = j.remaining
  BY <1>5, StoryShares
<1> DEFINE left == [l \in LotsOf(p) |-> lots[l].remaining]
           worth == [l \in LotsOf(p) |-> lots[l].price * lots[l].remaining]
<1>8. \A l \in LotsOf(p) : lots[l].remaining \in Nat /\ lots[l].price \in Nat
  BY <1>1, LotFields DEF LotsOf
<1>9. \A i \in Bought(o) : /\ at[W[i]] \in LotsOf(p) /\ lots[at[W[i]]].price = o[i].price
                           /\ Kept(o, RowsOf(p), b, i) = lots[at[W[i]]].remaining
  BY <1>4, ToldPlaces, SettledRemaining
<1>10. \A l \in DOMAIN A : A[l] = lots[l] /\ l \in LotsOf(p)
  <2>1. \A l \in DOMAIN ListActiveLots(p) : l \in DOMAIN lots /\ ListActiveLots(p)[l] = lots[l]
    BY <1>1, ActiveLots
  <2>2. \A l \in DOMAIN ListActiveLots(p) : lots[l].position = p
    BY DEF ListActiveLots
  <2> QED BY ONLY <2>1, <2>2 DEF LotsOf
<1>11. j.remaining = agg.quantity
  <2>1. left \in [LotsOf(p) -> Int] /\ \A l \in LotsOf(p) : lots[l].remaining = 0 => left[l] = 0
    BY <1>8
  <2>2. \A i \in Bought(o) : Kept(o, RowsOf(p), b, i) = left[at[W[i]]]
    BY <1>9
  <2>3. \A l \in DOMAIN A : A[l].remaining = left[l]
    BY <1>10
  <2> HIDE DEF left, j, A
  <2>4. Sum([i \in Bought(o) |-> left[at[W[i]]]]) = Sum([l \in DOMAIN ListActiveLots(p) |-> left[l]])
    BY <1>4, <2>1, SettledColumn
  <2>5. [i \in Bought(o) |-> Kept(o, RowsOf(p), b, i)] = [i \in Bought(o) |-> left[at[W[i]]]]
    BY ONLY <2>2
  <2>6. [l \in DOMAIN A |-> A[l].remaining] = [l \in DOMAIN A |-> left[l]]
    BY ONLY <2>3
  <2>7. agg.quantity = Sum([l \in DOMAIN A |-> A[l].remaining])
    BY DEF RecalculatePositionFromLots, Remaining
  <2> HIDE DEF agg
  <2> QED BY ONLY <1>7, <2>4, <2>5, <2>6, <2>7 DEF A
<1>12. j.cost = agg.cost
  <2>1. worth \in [LotsOf(p) -> Int] /\ \A l \in LotsOf(p) : lots[l].remaining = 0 => worth[l] = 0
    <3>1. \A x, y \in Nat : x * y \in Int /\ (y = 0 => x * y = 0)
      OBVIOUS
    <3> QED BY <1>8, <3>1
  <2>2. \A i \in Bought(o) : Kept(o, RowsOf(p), b, i) * o[i].price = worth[at[W[i]]]
    <3>1. \A x, y \in Nat : x * y = y * x
      OBVIOUS
    <3> QED BY <1>8, <1>9, <3>1
  <2>3. \A l \in DOMAIN A : A[l].price * A[l].remaining = worth[l]
    BY <1>10
  <2> HIDE DEF worth, j, A
  <2>4. Sum([i \in Bought(o) |-> worth[at[W[i]]]]) = Sum([l \in DOMAIN ListActiveLots(p) |-> worth[l]])
    BY <1>4, <2>1, SettledColumn
  <2>5. [i \in Bought(o) |-> Kept(o, RowsOf(p), b, i) * o[i].price] = [i \in Bought(o) |-> worth[at[W[i]]]]
    BY ONLY <2>2
  <2>6. [l \in DOMAIN A |-> A[l].price * A[l].remaining] = [l \in DOMAIN A |-> worth[l]]
    BY ONLY <2>3
  <2>7. agg.cost = Sum([l \in DOMAIN A |-> A[l].price * A[l].remaining])
    BY DEF RecalculatePositionFromLots
  <2> HIDE DEF agg
  <2> QED BY ONLY <1>7, <2>4, <2>5, <2>6, <2>7 DEF A
<1> QED BY <1>6, <1>7, <1>11, <1>12 DEF o

(* On a quiet position where no trade failed and no sale raced another or   *)
(* an older lot, the journal's own FIFO agrees with the books: the same     *)
(* profit, the same shares left and at the same cost, for any trades, dates *)
(* and prices (pnl_calculator.go:28-112, fifo_engine.go:67-122).            *)
THEOREM JournalAgreesAlways == Spec => []JournalAgrees
<1>1. Init => LotsSigned /\ Overtaken /\ Matching
  BY SignedInit, OvertakenInit, MatchingInit
<1>2. Books /\ (LotsSigned /\ Overtaken /\ Matching) /\ [Next]_vars
        => (LotsSigned /\ Overtaken /\ Matching)'
  BY SignedKept, OvertakenKept, MatchingKept DEF Books
<1>3. JournalInv => JournalAgrees
  <2>1. \A p : Quiet(p) /\ off[p] \cap {"lots", "order", "part"} = {} => Settled(p)
    BY DEF Settled, Clear
  <2> QED BY <2>1, SettledJournal DEF JournalAgrees
<1>4. Books /\ (LotsSigned /\ Overtaken /\ Matching) => JournalAgrees
  BY <1>3 DEF JournalInv
<1> QED BY <1>1, <1>2, <1>4, AlwaysBooks, PTL DEF Spec
=============================================================================
