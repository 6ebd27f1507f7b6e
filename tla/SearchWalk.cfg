SPECIFICATION Spec
CONSTANTS
  p1 = p1
  p2 = p2
  p3 = p3
  p4 = p4
  None = None
  Payment <- MCPayment
  Stamp <- MCStamp
  AskedPage <- MCAskedPage
  AskedLimit <- MCAskedLimit
  DefaultLimit = 1
  MaxLimit = 2
SYMMETRY PaymentSymmetry
INVARIANTS
  TypeOK
  ItemsWithinTotal
  NothingMissed
