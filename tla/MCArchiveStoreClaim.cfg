SPECIFICATION Spec
CONSTANTS
  a = a
  b = b
  c = c
  i = i
  j = j
  Savers = {a, b}
  Earlier <- TwoSaves
  Ids = {i}
  Readers = {}
  Foreign = {f}
  WellFormed = {}
  Nobody = Nobody
  Posix = TRUE
  MaxMishaps = 1
PROPERTY AlreadyExistsIsTrue
CHECK_DEADLOCK FALSE
