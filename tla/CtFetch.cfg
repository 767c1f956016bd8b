\* A fetch returns once: the end is not a deadlock.
CHECK_DEADLOCK FALSE
SPECIFICATION FetchSpec
CONSTANTS
  MAX_BODY_BYTES = 3
  MaxLength = 5
  Timeout = 2
INVARIANTS BufferBounded
PROPERTIES RefusedForCause FetchEnds
