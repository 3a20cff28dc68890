SPECIFICATION Spec
CONSTANTS
  N = 2
  Values = {v1, v2}
  Producers = {p1}
  Consumers = {c1, c2}
  Removers = {}
  Readers = {}
  SparesBase = TRUE
  Nil = Nil
  Free = Free
INVARIANT
  GetNeverPanics

