---------------------------- MODULE MCMarketplace ----------------------------
(* Two users, two items at most, two requests at once.  p1 is a pipeline of  *)
(* u1, p2 an unused id.  One job earns the badge, the others fail one        *)
(* condition each.                                                           *)
EXTENDS Marketplace

CONSTANTS u1, u2, s1, s2, p1, p2, good, pending, foreign, bare, few, losing, negative

MCKindOf == [r \in Resources |-> "PIPELINE"]
MCFirstOwner == [r \in Resources |-> IF r = p1 THEN u1 ELSE None]
MCOffers == {<<u1, "PIPELINE", p1>>}
MCWinRate == [j \in Jobs |-> IF j = losing THEN 49 ELSE 50]
MCJobDone == [j \in Jobs |-> j # pending]
MCJobPipeline == [j \in Jobs |-> IF j = foreign THEN p2 ELSE IF j = good THEN p1 ELSE None]
MCJobEvents == [j \in Jobs |-> IF j = few THEN 9 ELSE IF j = bare THEN -1 ELSE 10]
MCJobReturn == [j \in Jobs |-> IF j = negative THEN -1 ELSE 0]
=============================================================================
