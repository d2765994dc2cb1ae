SPECIFICATION Spec
CONSTANTS
  a = a
  b = b
  c = c
  i = i
  j = j
  Savers = {a, b}
  Earlier <- TwoSaves
  Ids = {i, j}
  Readers = {r}
  Foreign = {f, g}
  WellFormed = {g}
  Nobody = Nobody
  Posix = FALSE
  MaxMishaps = 2
SYMMETRY TwoIds
INVARIANTS ReadersSeeWholeRuns ReadersSeeEarlierSaves
CHECK_DEADLOCK FALSE
