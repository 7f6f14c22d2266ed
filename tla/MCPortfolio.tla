----------------------------- MODULE MCPortfolio -----------------------------
(* Two buys and two sales: of one position, Korean or US, or of two.  A sale *)
(* needs both lots, another is at a loss or asks for more than may be left,  *)
(* and neither quantities nor fees divide evenly.  With three sales of one   *)
(* lot, each may meet another.                                               *)
EXTENDS Portfolio

CONSTANTS u1, u2, kr, us, tech, t1, t2, t3, t4

MCMarketOf == [p \in Positions |-> IF p = kr THEN "KR" ELSE "US"]
MCOwnerOf == [p \in Positions |-> u1]
MCSectorOf == [p \in Positions |-> IF p = kr THEN tech ELSE NoSector]
MCPrice == [p \in Positions |-> IF p = kr THEN 700 ELSE 0]
Buy(p, price, qty, fee) == [type |-> "BUY", position |-> p, price |-> price, qty |-> qty, fee |-> fee]
Sell(p, price, qty, fee) == [type |-> "SELL", position |-> p, price |-> price, qty |-> qty, fee |-> fee]
Four(a, b, c, d) == [t \in Trades |-> CASE t = t1 -> a [] t = t2 -> b [] t = t3 -> c [] t = t4 -> d]
MCScenarios == {
  Four(Buy(kr, 300, 2, 5), Buy(kr, 900, 3, 1), Sell(kr, 800, 3, 7), Sell(kr, 500, 2, 0)),
  Four(Buy(us, 401, 3, 2), Buy(us, 900, 2, 5), Sell(us, 777, 4, 5), Sell(us, 350, 1, 3)),
  Four(Buy(kr, 300, 2, 5), Sell(kr, 850, 1, 3), Buy(us, 401, 3, 2), Sell(us, 777, 2, 5)),
  Four(Buy(us, 500, 3, 4), Sell(us, 850, 1, 3), Sell(us, 450, 1, 2), Sell(us, 777, 2, 5)) }
MCPlans == { << >>, << <<kr, 100>> >>, << <<kr, 33>>, <<us, 67>> >>, << <<us, 90>>, <<us, 10>> >>,
             << <<tech, 50>>, <<kr, 50>> >>, << <<kr, 60>>, <<us, 60>> >> }
=============================================================================
