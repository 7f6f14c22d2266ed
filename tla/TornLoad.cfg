SPECIFICATION Spec
CONSTANTS
  s1 = s1
  s2 = s2
  s3 = s3
  s4 = s4
  s5 = s5
  b1 = b1
  b2 = b2
  b3 = b3
  b4 = b4
  b5 = b5
  Jobs = {j1}
  Stages = {s1, s2, s3, s4, s5}
  Blocks = {b1, b2, b3, b4, b5}
  Order <- MCOrder
  StageOf <- MCStageOf
  Outcomes <- MCOutcomes
  Revisions = {{s1, s2, s3}, {s4, s5}}
  Faults = FALSE
  MaxAttempts = 3
  MaxErrors = 2
INVARIANT LoadedWithItsBlocks
CHECK_DEADLOCK FALSE
