SPECIFICATION MenuSpec
CONSTANTS
  ListCounts <- Counts
  Deltas <- Int8
INVARIANT CursorFollowsSteps
