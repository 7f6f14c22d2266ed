---------------------------- MODULE PortfolioStore ----------------------------
(***************************************************************************)
(* The portfolio tables, the statements of PortfolioRepository and the     *)
(* FIFO engine.  A position is a (user, symbol) pair and its row; a lot is *)
(* known by its buy date, a tick of the clock; a row of realized_pnls by   *)
(* its sale and lot.  Amounts are whole cents, as the NUMERIC(12,2)        *)
(* columns keep them: what the engine computes is rounded when it is       *)
(* written, and only then.                                                 *)
(***************************************************************************)
EXTENDS Integers, FiniteSets, FiniteSetsExt, SequencesExt, Sums

CONSTANTS
  Users, Positions, Trades, Sectors,
  OwnerOf, MarketOf, SectorOf,     (* of a position                         *)
  Scenarios,                       (* what the trades may ask for           *)
  NoSector

TradeInput == [type : {"BUY", "SELL"}, position : Positions, price : Nat, qty : Nat, fee : Nat]

ASSUME PortfolioStoreAssumption ==
  /\ OwnerOf \in [Positions -> Users]
  /\ MarketOf \in [Positions -> {"KR", "US"}]
  /\ SectorOf \in [Positions -> Sectors \cup {NoSector}]
  /\ Scenarios \subseteq [Trades -> TradeInput]
  /\ \A s \in Scenarios, t \in Trades : s[t].type = "BUY" => s[t].qty > 0

VARIABLES
  order,          (* trade -> what it asks for; never changes               *)
  clock,          (* ticks when a buy or a sale takes the time              *)
  positions,      (* portfolio_positions: position -> row, or NoPosition    *)
  lots,           (* fifo_lots: date -> lot                                 *)
  pnls            (* realized_pnls                                          *)

tables == <<clock, positions, lots, pnls>>

Aggregates == [quantity : Nat, cost : Nat]
NoPosition == [quantity |-> -1, cost |-> 0]
FifoLot == [trade : Trades, position : Positions, price : Nat, original : Nat, remaining : Nat,
            fee : Nat]
RealizedPnL == [trade : Trades, lot : Nat, quantity : Nat, gross : Int, fee : Int, tax : Int,
                net : Int, at : Nat]

StoreTypeOK ==
  /\ order \in Scenarios
  /\ clock \in Nat
  /\ positions \in [Positions -> Aggregates \cup {NoPosition}]
  /\ DOMAIN lots \subseteq 1..clock
  /\ \A l \in DOMAIN lots : lots[l] \in FifoLot /\ lots[l].remaining <= lots[l].original
  /\ pnls \subseteq RealizedPnL

(* NUMERIC(12,2): n/d to the nearest cent, halves away from zero. *)
Round(n, d) == IF n >= 0 THEN (2 * n + d) \div (2 * d) ELSE -((d - 2 * n) \div (2 * d))

-----------------------------------------------------------------------------
(* Reads.  Lots are read as rows by date, oldest first. *)

Exists(p) == positions[p] # NoPosition

ListActivePositions(u) == {p \in Positions : OwnerOf[p] = u /\ positions[p].quantity > 0}
ListActiveLots(p) ==
  [l \in {k \in DOMAIN lots : lots[k].position = p /\ lots[k].remaining > 0} |-> lots[l]]

RowsOf(p) == {r \in pnls : order[r.trade].position = p}
RowsOfUser(u) == {r \in pnls : OwnerOf[order[r.trade].position] = u}
RowsOfMarket(u, m) == {r \in RowsOfUser(u) : MarketOf[order[r.trade].position] = m}

SumRealizedPnLByUser(u) == Sum([r \in RowsOfUser(u) |-> r.net])
ListRealizedPnLByPeriod(u, from, to) == {r \in RowsOfUser(u) : from <= r.at /\ r.at <= to}
SumRealizedPnLByMarket(u, m) ==
  LET R == RowsOfMarket(u, m)
  IN  [net |-> Sum([r \in R |-> r.net]),
       gross |-> Sum([r \in R |-> r.gross]),
       tax |-> Sum([r \in R |-> r.tax]),
       amount |-> Sum([r \in R |-> order[r.trade].price * r.quantity])]

-----------------------------------------------------------------------------
(* Writes: the table after the statement. *)

UpsertPosition(p, qty, price) ==
  IF Exists(p) THEN positions
  ELSE [positions EXCEPT ![p] = [quantity |-> qty, cost |-> price * qty]]

UpdatePositionAggregates(p, agg) == [positions EXCEPT ![p] = agg]

CreateFifoLot(t, date) ==
  [l \in DOMAIN lots \cup {date} |->
     IF l \in DOMAIN lots THEN lots[l]
     ELSE [trade |-> t, position |-> order[t].position, price |-> order[t].price,
           original |-> order[t].qty, remaining |-> order[t].qty, fee |-> order[t].fee]]

UpdateLotRemainingQty(l, qty) == [lots EXCEPT ![l].remaining = qty]

-----------------------------------------------------------------------------
(* fifo_engine.go and tax_calculator.go: L is what ListActiveLots returned. *)

Remaining(L, dates) == Sum([l \in dates |-> L[l].remaining])

(* Mutant: the newest lot is taken first. *)
WantedNewestFirst(L, qty, l) == qty - Remaining(L, {k \in DOMAIN L : k > l})

(* What is left of the quantity for lot l, after the older ones. *)
Wanted(L, qty, l) == qty - Remaining(L, {k \in DOMAIN L : k < l})

(* Mutant: a sale takes all it wants of a lot. *)
SellQtyUnbounded(L, qty, l) == Wanted(L, qty, l)

SellQty(L, qty, l) == IF L[l].remaining < Wanted(L, qty, l)
                      THEN L[l].remaining ELSE Wanted(L, qty, l)

(* Mutant: the remainder is reckoned from what was bought. *)
LegFromOriginal(L, qty, l) ==
  [lot |-> l, qty |-> SellQty(L, qty, l), left |-> L[l].original - SellQty(L, qty, l)]

Leg(L, qty, l) ==
  [lot |-> l, qty |-> SellQty(L, qty, l), left |-> L[l].remaining - SellQty(L, qty, l)]

Accepted(L, price, qty) == qty > 0 /\ price > 0 /\ qty <= Remaining(L, DOMAIN L)

ComputeFifoSell(L, qty) == {Leg(L, qty, l) : l \in {k \in DOMAIN L : Wanted(L, qty, k) > 0}}

RecalculateFromOriginal(L) ==
  [quantity |-> Sum([l \in DOMAIN L |-> L[l].original]),
   cost |-> Sum([l \in DOMAIN L |-> L[l].price * L[l].original])]

RecalculatePositionFromLots(L) ==
  [quantity |-> Remaining(L, DOMAIN L),
   cost |-> Sum([l \in DOMAIN L |-> L[l].price * L[l].remaining])]

(* Taxes are in hundredths of a percent of a cent. *)
KRTransactionTaxRate == 18
USCapitalGainsTaxRate == 2200

(* Mutant: the transaction tax is taken of the gain, not of the amount. *)
CalculateTaxOfGain(m, price, qty, gross) ==
  CASE gross <= 0 -> 0
    [] m = "KR" -> gross * KRTransactionTaxRate
    [] m = "US" -> gross * USCapitalGainsTaxRate

CalculateTax(m, price, qty, gross) ==
  CASE m = "KR" -> price * qty * KRTransactionTaxRate
    [] m = "US" -> IF gross <= 0 THEN 0 ELSE gross * USCapitalGainsTaxRate

(* Mutant: the fee of the lot is shared out over what was left of it. *)
RowOfRemaining(t, leg, at) ==
  LET o == order[t]
      lot == lots[leg.lot]
      gross == (o.price - lot.price) * leg.qty
      tax == CalculateTax(MarketOf[o.position], o.price, leg.qty, gross)
      whole == leg.left + leg.qty
      parts == whole * o.qty
      fee == (lot.fee * o.qty + o.fee * whole) * leg.qty
  IN  [trade |-> t, lot |-> leg.lot, quantity |-> leg.qty, gross |-> gross, at |-> at,
       fee |-> Round(fee, parts), tax |-> Round(tax, 10000),
       net |-> Round((gross * 10000 - tax) * parts - 10000 * fee, 10000 * parts)]

(* The row CreateRealizedPnL inserts for a leg.  The fees are shares of the *)
(* lot's and of the sale's, by quantity.                                    *)
Row(t, leg, at) ==
  LET o == order[t]
      lot == lots[leg.lot]
      gross == (o.price - lot.price) * leg.qty
      tax == CalculateTax(MarketOf[o.position], o.price, leg.qty, gross)
      parts == lot.original * o.qty
      fee == (lot.fee * o.qty + o.fee * lot.original) * leg.qty
  IN  [trade |-> t, lot |-> leg.lot, quantity |-> leg.qty, gross |-> gross, at |-> at,
       fee |-> Round(fee, parts), tax |-> Round(tax, 10000),
       net |-> Round((gross * 10000 - tax) * parts - 10000 * fee, 10000 * parts)]
=============================================================================
