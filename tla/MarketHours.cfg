SPECIFICATION Spec
INVARIANT MarketHoursPolled
