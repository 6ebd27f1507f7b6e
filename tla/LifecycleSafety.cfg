\* A request stops when it has been answered or dropped.
CHECK_DEADLOCK FALSE
SPECIFICATION Spec
CONSTANTS
  Payment = {p1}
  Provider = {alpha, beta}
  Request = {r1, r2}
  shop = shop
  ops = ops
  Caller = {shop, ops}
  Owner <- ShopOwns
  Operations = {ops}
  ByReference = {alpha}
  MaxRetryAttempts = 2
  CountReads = TRUE
  None = None
SYMMETRY RequestSymmetry
INVARIANTS
  TypeOK
  NumbersAreSound
  ResolutionsAreReal
  RetriesAreRecorded
  AsksMostRecent
  EffectsAreEntitled
  CancelsStand
  ExcessIsRaces
PROPERTIES
  StatusChangesLegal
  KeepsBook
