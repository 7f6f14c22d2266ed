------------------------------- MODULE TaxYears -------------------------------
(* The tax endpoint and the calendar: times counted in years.                *)
EXTENDS MCPortfolio

CONSTANT TicksPerYear   (* bound: time passes by one trade at a time         *)

YearOf(time) == time \div TicksPerYear

RowsOfYear(u, market, year) == {r \in RowsOfMarket(u, market) : YearOf(r.at) = year}

AnnualTax(u, year) ==
  LET sold == Sum([r \in RowsOfYear(u, "KR", year) |-> order[r.trade].price * r.quantity])
      gain == Sum([r \in RowsOfYear(u, "US", year) |-> r.gross])
  IN  sold * KRTransactionTaxRate + CalculateAnnualUSTax(gain)

(* "SimulateTax returns the annual tax breakdown" (portfolio_handler.go:141): *)
(* what it answers is the tax on the rows of one year, with its deduction.    *)
TaxIsAnnual ==
  \A u \in Users : \E year \in 0..YearOf(clock) : SimulateTax(u).total = AnnualTax(u, year)
=============================================================================
