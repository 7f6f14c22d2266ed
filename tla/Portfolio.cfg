SPECIFICATION Spec
CONSTANTS
  u1 = u1
  u2 = u2
  kr = kr
  us = us
  tech = tech
  t1 = t1
  t2 = t2
  t3 = t3
  t4 = t4
  NoSector = NoSector
  Users = {u1, u2}
  Positions = {kr, us}
  Trades = {t1, t2, t3, t4}
  Sectors = {tech}
  OwnerOf <- MCOwnerOf
  MarketOf <- MCMarketOf
  SectorOf <- MCSectorOf
  Scenarios <- MCScenarios
  Price <- MCPrice
  Plans <- MCPlans
  USBasicDeduction = 200
  MaxOverlap = 3
  MaxFaults = 1
INVARIANT TypeOK
INVARIANT LotsConserved
INVARIANT SalesFill
INVARIANT AggregatesFollow
INVARIANT RowsAddUp
INVARIANT JournalAgrees
INVARIANT ReportsAgree
INVARIANT TaxesAgree
PROPERTY RecalculationRepairs
CHECK_DEADLOCK FALSE
