SPECIFICATION Spec
CONSTANTS
  a = a
  b = b
  c = c
  i = i
  j = j
  Savers = {a, b, c}
  Earlier <- BatchOfTwo
  Ids = {i, j}
  Readers = {}
  Foreign = {f}
  WellFormed = {}
  Nobody = Nobody
  Posix = TRUE
  MaxMishaps = 2
INVARIANTS PublishedIsComplete OutcomesAreTrue NothingLeftBehind EarlierWritesRemain
PROPERTY KeepsArchive
CHECK_DEADLOCK FALSE
