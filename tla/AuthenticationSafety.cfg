SPECIFICATION Spec
CONSTANTS
  shop = shop
  bank = bank
  k1 = k1
  k2 = k2
  k3 = k3
  a = a
  b = b
  p1 = p1
  p2 = p2
  Merchant = {shop, bank}
  Key = {k1, k2, k3}
  MerchantOf <- Merchants
  Prefix = {a, b}
  PrefixOf <- Prefixes
  Permission = {standard, operations}
  Operations = {operations}
  Payment = {p1, p2}
  Belongs <- Payments
  Request = {r1}
  None = None
INVARIANTS
  TypeOK
  AdmissionIsEarned
  RefusalHasCause
  ReadsStayHome
  OperationsAreEntitled
PROPERTY
  RevocationHolds
