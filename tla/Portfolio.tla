------------------------------ MODULE Portfolio ------------------------------
(***************************************************************************)
(* PortfolioService: buys and sales are booked one statement after another *)
(* without a transaction or a lock, several at once.  A trade is booked at *)
(* most once; its pc names the statement it runs next.                     *)
(***************************************************************************)
EXTENDS PortfolioReports

CONSTANTS
  Plans,          (* targets a user may ask to rebalance to                 *)
  MaxOverlap,     (* bound on the trades booked at once                     *)
  MaxFaults       (* bound on failed statements and on crashes              *)

ASSUME PortfolioAssumption ==
  /\ MaxOverlap \in Nat /\ MaxFaults \in Nat
  /\ \A targets \in Plans :
       /\ DOMAIN targets = 1..Len(targets) /\ Len(targets) \in Nat
       /\ \A i \in DOMAIN targets : targets[i][2] \in Int

VARIABLES
  pc,
  at,             (* trade -> the time it took, 0 before                    *)
  legs,           (* sale -> legs of the match that are not booked yet      *)
  seen,           (* trade -> the aggregates it is to write                 *)
  stale,          (* trades whose aggregates somebody wrote lots after      *)
  faults,
  off             (* position -> what is known to have gone wrong with it:  *)
                  (* "lots" two sales took a lot or one failed on it,       *)
                  (* "order" a sale missed an older lot, "part" a trade     *)
                  (* was booked in part, "aggregates" they are out of date  *)

vars == <<order, tables, pc, at, legs, seen, stale, faults, off>>

Position(t) == order[t].position
Troubles == {"lots", "order", "part", "aggregates"}
Running == {"createLot", "record", "update", "list", "writeAggregates"}
PC == Running \cup {"new", "ok", "refused", "failed"}
FifoLeg == [lot : Nat, qty : Nat, left : Nat]
NoAggregates == [quantity |-> 0, cost |-> 0]

TypeOK ==
  /\ StoreTypeOK
  /\ pc \in [Trades -> PC]
  /\ at \in [Trades -> Nat]
  /\ legs \in [Trades -> SUBSET FifoLeg]
  /\ \A t \in Trades : \A g \in legs[t] : g.lot \in DOMAIN lots /\ g.left <= lots[g.lot].original
  /\ seen \in [Trades -> Aggregates]
  /\ stale \subseteq Trades
  /\ faults \in Nat
  /\ off \in [Positions -> SUBSET Troubles]

Init ==
  /\ order \in Scenarios
  /\ clock = 0
  /\ positions = [p \in Positions |-> NoPosition]
  /\ lots = <<>>
  /\ pnls = {}
  /\ pc = [t \in Trades |-> "new"]
  /\ at = [t \in Trades |-> 0]
  /\ legs = [t \in Trades |-> {}]
  /\ seen = [t \in Trades |-> NoAggregates]
  /\ stale = {}
  /\ faults = 0
  /\ off = [p \in Positions |-> {}]

Others(t) == {u \in Trades \ {t} : Position(u) = Position(t)}
Goto(t, next) == pc' = [pc EXCEPT ![t] = next]
Mark(p, S) == off' = [off EXCEPT ![p] = @ \cup S]

Start(t, next) ==
  /\ pc[t] = "new"
  /\ Cardinality({u \in Trades : pc[u] \in Running}) < MaxOverlap
  /\ Goto(t, next)
  /\ clock' = clock + 1
  /\ at' = [at EXCEPT ![t] = clock + 1]

(* Whoever has read the lots of the position to recalculate it is late. *)
LotsWritten(t) == stale' = stale \cup {u \in Others(t) : pc[u] = "writeAggregates"}

-----------------------------------------------------------------------------
(* ProcessBuyTrade *)

(* The row, and then the time of the lot. *)
UpsertForBuy(t) ==
  /\ order[t].type = "BUY"
  /\ Start(t, "createLot")
  /\ positions' = UpsertPosition(Position(t), order[t].qty, order[t].price)
  /\ UNCHANGED <<lots, pnls, legs, seen, stale, faults, off>>

CreateLot(t) ==
  /\ pc[t] = "createLot"
  /\ lots' = CreateFifoLot(t, at[t])
  /\ LotsWritten(t)
  /\ Goto(t, "list")
  /\ UNCHANGED <<clock, positions, pnls, at, legs, seen, faults, off>>

-----------------------------------------------------------------------------
(* ProcessSellTrade *)

RefuseSale(t) ==
  /\ order[t].type = "SELL" /\ pc[t] = "new"
  /\ Exists(Position(t)) =>
       ~Accepted(ListActiveLots(Position(t)), order[t].price, order[t].qty)
  /\ Goto(t, "refused")
  /\ UNCHANGED <<tables, at, legs, seen, stale, faults, off>>

(* What the read of the lots misses: what another sale is about to take of  *)
(* them, and a lot that is dated and not written yet.                       *)
Missed(t, L) ==
  {x \in {"lots"} : \E u \in Others(t) : \E g \in legs[u] : g.lot \in DOMAIN L} \cup
  {x \in {"order"} : \E u \in Others(t) : pc[u] = "createLot"}

MatchLots(t) ==
  /\ order[t].type = "SELL"
  /\ LET L == ListActiveLots(Position(t))
     IN  /\ Exists(Position(t)) /\ Accepted(L, order[t].price, order[t].qty)
         /\ Start(t, "record")
         /\ legs' = [legs EXCEPT ![t] = ComputeFifoSell(L, order[t].qty)]
         /\ Mark(Position(t), Missed(t, L))
  /\ UNCHANGED <<positions, lots, pnls, seen, stale, faults>>

IsNext(t, g) == g \in legs[t] /\ \A h \in legs[t] : g.lot <= h.lot

RecordPnL(t) ==
  /\ pc[t] = "record"
  /\ \E g \in legs[t] : IsNext(t, g) /\ pnls' = pnls \cup {Row(t, g, at[t])}
  /\ Goto(t, "update")
  /\ UNCHANGED <<clock, positions, lots, at, legs, seen, stale, faults, off>>

(* Mutant: only the first leg is booked. *)
UpdateFirstLot(t) ==
  /\ pc[t] = "update"
  /\ \E g \in legs[t] :
       /\ IsNext(t, g)
       /\ lots' = UpdateLotRemainingQty(g.lot, g.left)
       /\ legs' = [legs EXCEPT ![t] = {}]
  /\ Goto(t, "list")
  /\ LotsWritten(t)
  /\ UNCHANGED <<clock, positions, pnls, at, seen, faults, off>>

(* Mutant: a sale ends when its lots are written. *)
UpdateLotAndEnd(t) ==
  /\ pc[t] = "update"
  /\ \E g \in legs[t] :
       /\ IsNext(t, g)
       /\ lots' = UpdateLotRemainingQty(g.lot, g.left)
       /\ legs' = [legs EXCEPT ![t] = @ \ {g}]
       /\ Goto(t, IF legs[t] = {g} THEN "ok" ELSE "record")
  /\ LotsWritten(t)
  /\ UNCHANGED <<clock, positions, pnls, at, seen, faults, off>>

UpdateLot(t) ==
  /\ pc[t] = "update"
  /\ \E g \in legs[t] :
       /\ IsNext(t, g)
       /\ lots' = UpdateLotRemainingQty(g.lot, g.left)
       /\ legs' = [legs EXCEPT ![t] = @ \ {g}]
       /\ Goto(t, IF legs[t] = {g} THEN "list" ELSE "record")
  /\ LotsWritten(t)
  /\ UNCHANGED <<clock, positions, pnls, at, seen, faults, off>>

-----------------------------------------------------------------------------
(* recalculatePosition *)

ListLots(t) ==
  /\ pc[t] = "list"
  /\ seen' = [seen EXCEPT ![t] = RecalculatePositionFromLots(ListActiveLots(Position(t)))]
  /\ stale' = stale \ {t}
  /\ Goto(t, "writeAggregates")
  /\ UNCHANGED <<tables, at, legs, faults, off>>

WriteAggregates(t) ==
  /\ pc[t] = "writeAggregates"
  /\ positions' = UpdatePositionAggregates(Position(t), seen[t])
  /\ seen' = [seen EXCEPT ![t] = NoAggregates]
  /\ stale' = stale \ {t}
  /\ off' = [off EXCEPT ![Position(t)] = IF t \in stale THEN @ \cup {"aggregates"}
                                         ELSE @ \ {"aggregates"}]
  /\ Goto(t, "ok")
  /\ UNCHANGED <<clock, lots, pnls, at, legs, faults>>

-----------------------------------------------------------------------------
(* Failures: the trades that stop stay booked as far as they are.           *)

Harm(t) == {"part", "aggregates"} \cup {x \in {"lots"} : pc[t] = "update"}

Stop(S) ==
  /\ faults < MaxFaults /\ faults' = faults + 1
  /\ pc' = [t \in Trades |-> IF t \in S THEN "failed" ELSE pc[t]]
  /\ legs' = [t \in Trades |-> IF t \in S THEN {} ELSE legs[t]]
  /\ seen' = [t \in Trades |-> IF t \in S THEN NoAggregates ELSE seen[t]]
  /\ stale' = stale \ S
  /\ off' = [p \in Positions |->
               off[p] \cup UNION {Harm(t) : t \in {u \in S : Position(u) = p}}]
  /\ UNCHANGED <<tables, at>>

Fail(t) == pc[t] \in Running /\ Stop({t})

Crash == LET S == {t \in Trades : pc[t] \in Running} IN S # {} /\ Stop(S)

Book(t) ==
  \/ UpsertForBuy(t) \/ CreateLot(t)
  \/ RefuseSale(t) \/ MatchLots(t) \/ RecordPnL(t) \/ UpdateLot(t)
  \/ ListLots(t) \/ WriteAggregates(t)

Next == UNCHANGED order /\ (Crash \/ \E t \in Trades : Book(t) \/ Fail(t))

Spec == Init /\ [][Next]_vars

-----------------------------------------------------------------------------
(* Properties *)

Quiet(p) == \A t \in Trades : Position(t) = p => pc[t] \notin Running
LotsOf(p) == {l \in DOMAIN lots : lots[l].position = p}
RowsOfTrade(t) == {r \in pnls : r.trade = t}
Sold(R) == Sum([r \in R |-> r.quantity])

(* Every share bought is either left in its lot or in one profit row, unless *)
(* two sales matched the lot at once or one failed between the row and the   *)
(* lot: however buys and sales interleave and wherever else they fail.  A    *)
(* row whose lot is written next is counted when it is (portfolio_service.go *)
(* :105-117).                                                                *)
LotsConserved ==
  \A l \in DOMAIN lots : "lots" \notin off[lots[l].position] =>
    lots[l].original = lots[l].remaining
      + Sold({r \in pnls : r.lot = l /\ ~(pc[r.trade] = "update" /\ \E g \in legs[r.trade] : g.lot = l)})

(* A sale books what it was asked to sell, no share more or less, even when  *)
(* others sell the same lots: exactly when it ends well, and the oldest lots *)
(* first, so that one that stops half-way leaves a prefix of its match.      *)
SalesFill ==
  \A t \in {u \in Trades : order[u].type = "SELL"} :
    /\ pc[t] \in {"list", "writeAggregates", "ok"} => Sold(RowsOfTrade(t)) = order[t].qty
    /\ pc[t] = "record" => Sold(RowsOfTrade(t)) + Sum([g \in legs[t] |-> g.qty]) = order[t].qty
    /\ pc[t] = "failed" => Sold(RowsOfTrade(t)) <= order[t].qty
    /\ pc[t] = "refused" => RowsOfTrade(t) = {}
    /\ \A r \in RowsOfTrade(t) : \A g \in legs[t] : r.lot <= g.lot

(* A position nobody trades shows the shares and the cost of its lots, unless *)
(* a trade failed on it or wrote what it had read before another's lots.      *)
AggregatesFollow ==
  \A p \in Positions : Exists(p) /\ Quiet(p) /\ "aggregates" \notin off[p] =>
    positions[p] = RecalculatePositionFromLots(ListActiveLots(p))

(* Recalculation starts from the lots, never from the row: a trade that ends  *)
(* well, and that no other overtook, leaves the shares and the cost of the    *)
(* lots in the row, whatever earlier failures left there.                     *)
RecalculationRepairs ==
  [][\A t \in Trades : pc[t] # "ok" /\ pc'[t] = "ok" /\ t \notin stale =>
       positions'[Position(t)] =
         [quantity |-> Sum([l \in LotsOf(Position(t)) |-> lots'[l].remaining]),
          cost |-> Sum([l \in LotsOf(Position(t)) |-> lots'[l].remaining * lots'[l].price])]]_vars

(* Rounding each column by itself loses at most a cent of a row's sum, and    *)
(* over a position that is sold out the fees of its rows are the fees of its  *)
(* lots and sales but for half a cent a row: no lot's fee is left out or      *)
(* charged twice (fifo_engine.go:98-108).                                     *)
RowsAddUp ==
  /\ \A r \in pnls : Size(r.net - (r.gross - r.fee - r.tax)) <= 1
  /\ \A p \in Positions :
       /\ Quiet(p) /\ off[p] \cap {"lots", "part"} = {} /\ LotsOf(p) # {}
       /\ \A l \in LotsOf(p) : lots[l].remaining = 0
       => LET sales == {t \in Trades : Position(t) = p /\ order[t].type = "SELL" /\ pc[t] = "ok"}
              fees == Sum([l \in LotsOf(p) |-> lots[l].fee]) + Sum([t \in sales |-> order[t].fee])
          IN  2 * Size(Sum([r \in RowsOf(p) |-> r.fee]) - fees) <= Cardinality(RowsOf(p))

(* The journal's own FIFO agrees with the books: for the trades that ended    *)
(* well, in the order of their dates, the same profit before fees and taxes,  *)
(* the same shares left and at the same cost, as long as no trade failed and  *)
(* no sale raced another or an older lot.                                     *)
Journal(p) ==
  LET T == {t \in Trades : Position(t) = p /\ pc[t] = "ok"}
      dated == [i \in 1..Cardinality(T) |->
                  CHOOSE t \in T : Cardinality({u \in T : at[u] < at[t]}) = i - 1]
  IN  [i \in DOMAIN dated |-> order[dated[i]]]

JournalAgrees ==
  \A p \in Positions : Quiet(p) /\ off[p] \cap {"lots", "order", "part"} = {} =>
    LET j == CalculatePnL(Journal(p), Price[p])
        agg == RecalculatePositionFromLots(ListActiveLots(p))
    IN  /\ j.realized = Sum([r \in RowsOf(p) |-> r.gross])
        /\ j.remaining = agg.quantity /\ j.cost = agg.cost
        /\ j.bought - j.sold = j.remaining

(* The reports tell one story.  The sectors divide the summary's value and    *)
(* its open profit; without prices no position shows a profit beyond the      *)
(* rounding of its average cost; the history of all time ends at the realized *)
(* profit, which the summary shows too but, by its early return, as 0 once    *)
(* all is sold (portfolio_service.go:147-151); and a plan of weights, none of *)
(* them negative, that add up to 100 at most never needs more cash than its   *)
(* sales bring in but for one share of each position sold.                    *)
ReportsAgree ==
  \A u \in Users, fetched \in BOOLEAN :
    LET s == GetPortfolioSummary(u, fetched)
        sectors == ComputeSectorWeights(s.positions)
        history == GetPnLHistory(u, 0, clock)
        end == IF history = <<>> THEN 0 ELSE history[Len(history)].cumulative
    IN  /\ s.value = Sum([x \in sectors |-> x.value])
        /\ s.unrealized = Sum([x \in sectors |-> x.unrealized])
        /\ ~fetched => \A d \in s.positions : 2 * Size(d.unrealized) <= d.quantity
        /\ end = SumRealizedPnLByUser(u)
        /\ s.realized = IF s.positions = {} THEN 0 ELSE end
        /\ \A targets \in Plans :
             LET plan == SimulateRebalance(s.positions, targets, s.value)
                 sold == {d \in s.positions : \E a \in plan.held :
                            a.symbol = d.position /\ a.side = "SELL"}
             IN  plan.accepted /\ (\A i \in DOMAIN targets : targets[i][2] >= 0) =>
                   plan.cash + 100 * Sum([d \in sold |-> d.price]) >= 0

(* The simulated tax and the tax booked sale by sale, both of all the rows of *)
(* a user, whatever their year: for the Korean market they are equal but for  *)
(* half a cent a row; for the US market the simulation never asks for more    *)
(* than was booked, since losses and the deduction only ever lower it         *)
(* (tax_calculator.go:46-47).                                                 *)
TaxesAgree ==
  \A u \in Users :
    LET tax == SimulateTax(u)
        rows(m) == 5000 * Cardinality(RowsOfMarket(u, m))
    IN  /\ Size(10000 * SumRealizedPnLByMarket(u, "KR").tax - tax.kr) <= rows("KR")
        /\ tax.us <= 10000 * SumRealizedPnLByMarket(u, "US").tax + rows("US")
=============================================================================
