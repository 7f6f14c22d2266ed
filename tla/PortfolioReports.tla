--------------------------- MODULE PortfolioReports ---------------------------
(***************************************************************************)
(* What is computed from the portfolio tables: the summary, the sectors,   *)
(* the history, the tax and the rebalancing of PortfolioService, and the   *)
(* profit of a journal of trades (domain/trade).  Percentages that only    *)
(* divide two of the sums, and the order of lists, are left out.           *)
(***************************************************************************)
EXTENDS PortfolioStore

CONSTANTS
  Price,             (* position -> its price now; 0: it has none           *)
  USBasicDeduction   (* in cents; 2,500,000 (won) in the code               *)

ASSUME PortfolioReportsAssumption ==
  /\ Price \in [Positions -> Nat]
  /\ USBasicDeduction \in Nat

-----------------------------------------------------------------------------
(* GetPortfolioSummary; the average cost stands in for prices not fetched. *)

AvgCostPrice(p) == IF positions[p].quantity > 0
                   THEN Round(positions[p].cost, positions[p].quantity) ELSE 0

CurrentPrice(p, fetched) == IF fetched /\ Price[p] > 0 THEN Price[p] ELSE AvgCostPrice(p)

PositionDetail(p, fetched) ==
  LET value == CurrentPrice(p, fetched) * positions[p].quantity
  IN  [position |-> p, price |-> CurrentPrice(p, fetched), quantity |-> positions[p].quantity,
       value |-> value, unrealized |-> value - positions[p].cost, sector |-> SectorOf[p]]

GetPortfolioSummary(u, fetched) ==
  LET details == {PositionDetail(p, fetched) : p \in ListActivePositions(u)}
      unrealized == Sum([d \in details |-> d.unrealized])
      realized == IF details = {} THEN 0 ELSE SumRealizedPnLByUser(u)
  IN  [value |-> Sum([d \in details |-> d.value]), unrealized |-> unrealized,
       realized |-> realized, total |-> unrealized + realized, positions |-> details]

(* Mutant: a position without a sector is left out. *)
ComputeKnownSectors(details) ==
  {LET D == {d \in details : d.sector = x}
   IN  [sector |-> x, value |-> Sum([d \in D |-> d.value]),
        unrealized |-> Sum([d \in D |-> d.unrealized]), positions |-> D]
     : x \in {d.sector : d \in details} \ {NoSector}}

ComputeSectorWeights(details) ==
  {LET D == {d \in details : d.sector = x}
   IN  [sector |-> x, value |-> Sum([d \in D |-> d.value]),
        unrealized |-> Sum([d \in D |-> d.unrealized]), positions |-> D]
     : x \in {d.sector : d \in details}}

(* Rows by time, each with the sum so far. *)
Before(r, s) == r.at < s.at \/ (r.at = s.at /\ r.lot < s.lot)

GetPnLHistory(u, from, to) ==
  LET R == ListRealizedPnLByPeriod(u, from, to)
      dated == [i \in 1..Cardinality(R) |->
                  CHOOSE r \in R : Cardinality({s \in R : Before(s, r)}) = i - 1]
  IN  [i \in DOMAIN dated |->
         [row |-> dated[i], cumulative |-> Sum([j \in 1..i |-> dated[j].net])]]

-----------------------------------------------------------------------------
(* SimulateTax: one tax of all the rows there are, of whatever year. *)

CalculateAnnualUSTax(gain) ==
  IF gain - USBasicDeduction <= 0 THEN 0
  ELSE (gain - USBasicDeduction) * USCapitalGainsTaxRate

SimulateTax(u) ==
  LET korean == SumRealizedPnLByMarket(u, "KR").amount * KRTransactionTaxRate
      american == CalculateAnnualUSTax(SumRealizedPnLByMarket(u, "US").gross)
  IN  [kr |-> korean, us |-> american, total |-> korean + american]

-----------------------------------------------------------------------------
(* SimulateRebalance, with values in hundredths of a cent.  Targets are a   *)
(* list of <<symbol, weight>>; the last of two for a position counts, and   *)
(* the shares bought or sold are whole.                                     *)

Targeted(targets, p) ==
  LET for == {i \in DOMAIN targets : targets[i][1] = p}
  IN  IF for = {} THEN 0 ELSE targets[Max(for)][2]

Size(x) == IF x < 0 THEN -x ELSE x

HeldAction(d, weight, total) ==
  LET diff == total * weight - 100 * d.value
      qty == IF d.price > 0 THEN Size(diff) \div (100 * d.price) ELSE 0
  IN  [symbol |-> d.position, side |-> IF diff > 0 THEN "BUY" ELSE IF diff < 0 THEN "SELL" ELSE "HOLD",
       diff |-> diff, qty |-> qty, amount |-> 100 * qty * d.price]

SimulateRebalance(details, targets, total) ==
  LET held == {HeldAction(d, Targeted(targets, d.position), total) : d \in details}
      new == {i \in DOMAIN targets : ~\E d \in details : d.position = targets[i][1]}
      amount(side) == Sum([a \in {h \in held : h.side = side} |-> a.amount])
      buy == amount("BUY") + Sum([i \in new |-> total * targets[i][2]])
      sell == amount("SELL")
  IN  [accepted |-> Sum([i \in DOMAIN targets |-> targets[i][2]]) <= 100,
       held |-> held, buy |-> buy, sell |-> sell, cash |-> sell - buy]

-----------------------------------------------------------------------------
(* CalculatePnL: the journal has its own queue of lots, oldest first; here  *)
(* it is what is left of each trade's purchase, in the order of the trades. *)

Smaller(a, b) == IF a < b THEN a ELSE b
Ahead(left, i) == Sum([k \in 1..(i - 1) |-> left[k]])
Matched(left, qty, i) ==
  IF qty <= Ahead(left, i) THEN 0 ELSE Smaller(left[i], qty - Ahead(left, i))

(* The queue after trade n, and after each of the first n trades. *)
Traded(left, o, n) ==
  IF o.type = "BUY" THEN [left EXCEPT ![n] = o.qty]
  ELSE [i \in DOMAIN left |-> left[i] - Matched(left, o.qty, i)]

BuyQueue(trades) ==
  LET queue[n \in 0..Len(trades)] ==
        IF n = 0 THEN [i \in DOMAIN trades |-> 0] ELSE Traded(queue[n - 1], trades[n], n)
  IN  queue

CalculatePnL(trades, price) ==
  LET queue == BuyQueue(trades)
      left == queue[Len(trades)]
      buys == {n \in DOMAIN trades : trades[n].type = "BUY"}
      profit(n) == LET before == queue[n - 1]
                   IN  Sum([i \in DOMAIN trades |->
                              Matched(before, trades[n].qty, i) * (trades[n].price - trades[i].price)])
      cost == Sum([i \in DOMAIN trades |-> left[i] * trades[i].price])
  IN  [bought |-> Sum([n \in buys |-> trades[n].qty]),
       sold |-> Sum([n \in DOMAIN trades \ buys |-> trades[n].qty]),
       remaining |-> Sum(left), cost |-> cost,
       realized |-> Sum([n \in DOMAIN trades \ buys |-> profit(n)]),
       unrealized |-> Sum(left) * price - cost]
=============================================================================
