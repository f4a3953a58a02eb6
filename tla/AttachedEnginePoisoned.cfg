CONSTANTS
  o1 = o1
  o2 = o2
  o3 = o3
  alice = alice
  XAU = XAU
  XAG = XAG
  OrderIds = {o1, o2, o3}
  Instruments = {XAU}
  Owners = {alice}
  Null = Null
  Malformed = Malformed
  Prices <- MCPrices
  Times <- MCTimes
  MaxSafe = 7
  Submissions <- SweepSubmissions
  Cancellations <- SweepCancellations
  Amendments <- SweepAmendments
SPECIFICATION MCAttachedSpec
CHECK_DEADLOCK FALSE
INVARIANTS
  ReplayIsNeverPoisoned
