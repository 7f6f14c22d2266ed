SPECIFICATION FairSpec
CONSTANTS
  None = None
  u1 = u1
  u2 = u2
  p1 = p1
  p2 = p2
  good = good
  pending = pending
  foreign = foreign
  bare = bare
  few = few
  losing = losing
  negative = negative
  s1 = s1
  s2 = s2
  Users = {u1, u2}
  Slots = {s1, s2}
  Resources = {p1, p2}
  Jobs = {good, pending, foreign, bare, few, losing, negative}
  KindOf <- MCKindOf
  FirstOwner <- MCFirstOwner
  Offers <- MCOffers
  WinRate <- MCWinRate
  JobDone <- MCJobDone
  JobPipeline <- MCJobPipeline
  JobEvents <- MCJobEvents
  JobReturn <- MCJobReturn
  MaxItems = 2
  MaxRequests = 2
  MaxFaults = 1
  MaxRefreshes = 1
INVARIANT TypeOK
INVARIANT CountersExact
INVARIANT ViewsCountOnce
INVARIANT ForksOwnTheirCopy
INVARIANT BadgeEarned
PROPERTY TogglesKeepBoard
PROPERTY RecountRepairs
CHECK_DEADLOCK FALSE
