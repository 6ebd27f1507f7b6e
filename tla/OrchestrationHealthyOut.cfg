SPECIFICATION Spec
CONSTANTS
  alpha = alpha
  nicepay = nicepay
  mine = mine
  more = more
  yours = yours
  bad = bad
  abroad = abroad
  long = long
  r = r
  r2 = r2
  m1 = m1
  m2 = m2
  k1 = k1
  k2 = k2
  Provider = {alpha, nicepay}
  Registered <- Pair
  Priority <- Priorities
  Configured = {alpha, nicepay}
  Threshold = 2
  OpenDuration = 1
  Call = {c1, c2}
  Payment = {mine, more, yours, bad, abroad, long}
  Reference = {r, r2}
  RefOf <- References
  Merchant = {m1, m2}
  MerchantOf <- Merchants
  Key = {k1, k2}
  Malformed = {bad}
  Foreign = {abroad}
  Oversized = {long}
  ByReference = {alpha}
  Inquirable = {alpha}
  MaxRetryAttempts = 2
  CountReads = FALSE
  None = None
INVARIANT
  HealthyProvidersStayIn
