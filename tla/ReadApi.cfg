\* Four rows, three of them with the same timestamp, pages of 1 and 2 rows;
\* a limiter with two entries, a window of two ticks and a clock of two.
SPECIFICATION MCSpec
CONSTANTS
  ip1 = ip1
  ip2 = ip2
  ip3 = ip3
  h1 = h1
  h2 = h2
  Row <- FourRows
  Filters <- SomeFilters
  Sorts <- SomeSorts
  Asked <- SomeLimits
  DefaultLimit = 1
  MaxLimit = 2
  Absent = Absent
  Garbage = Garbage
  Callers <- SomeCallers
  Keys <- SomeKeys
  TrustProxy = TRUE
  Window = 2
  Capacity = 2
  Limits = {0, 1, 2}
  None = None
  MaxTime = 2
INVARIANTS TypeOK CursorExact OffsetExact
PROPERTIES WindowKept
CHECK_DEADLOCK FALSE
