SPECIFICATION Spec
CONSTANTS
  k1 = k1
  k2 = k2
  b1 = b1
  b2 = b2
  ref1 = ref1
  ref2 = ref2
  None = None
  Request = {r1, r2}
  Key = {k1}
  Body = {b1}
  Ref = {ref1, ref2}
  RefOf <- OneRef
\* Each client request is sent once, so the system stops when all are served.
CHECK_DEADLOCK FALSE
INVARIANT ExecutedOncePerKey
