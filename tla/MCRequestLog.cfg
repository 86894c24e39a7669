CONSTANTS
  Workers  = {w1, w2}
  Requests = {q1, q2, q3, q4, st}
  Status   = {st}
  Garbage  = garbage
SYMMETRY Symmetric
SPECIFICATION Spec
INVARIANTS
  TypeOK
  ExactUntilRace
  StatusIsConsistent
  NeverOvercounts
