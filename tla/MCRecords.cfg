CONSTANTS
  Workers  = {w1, w2}
  Requests = {q1, q2, q3, q4, q5}
  Status   = {}
  Garbage  = garbage
SYMMETRY Symmetric
SPECIFICATION Spec
INVARIANT RecordsEveryResponse
