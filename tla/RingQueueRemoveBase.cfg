SPECIFICATION Spec
CONSTANTS
  N = 2
  Values = {v1, v2}
  Producers = {p1}
  Consumers = {c1}
  Removers = {m1}
  Readers = {}
  SparesBase = FALSE
  Nil = Nil
  Free = Free
PROPERTY
  RemoveExact

