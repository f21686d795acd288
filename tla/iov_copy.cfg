SPECIFICATION Spec
CONSTANTS
  Iovs <- SmallIovs
  Starts = {0, 1, 2, 3, 4, 5}
  Sizes = {0, 1, 2, 3, 4, 5, 6, 7, 8, 9, 10}
INVARIANT CopiesInBounds
INVARIANT CopiesInOrder
INVARIANT Result
CHECK_DEADLOCK FALSE
