CONSTANTS
  customer = customer
  o1 = o1
  o2 = o2
  o3 = o3
  alice = alice
  XAU = XAU
  XAG = XAG
  Customer = customer
  Instruments = {XAU, XAG}
  OrderIds <- ClientOrderIds
  Owners <- ClientOwners
  Null = Null
  Malformed = Malformed
  Prices <- MCPrices
  Times <- TwoTimes
  MaxSafe = 100
  Submissions <- RefusalSubmissions
  Cancellations <- RefusalCancellations
  Amendments <- RefusalAmendments
  OrdinaryActs = 3
  Draws <- MCDraws
  QuoteMultiplier = 7
  QuoteDivisor = 2
  MaxDepthLevels = 1
SPECIFICATION ClientSpec
CHECK_DEADLOCK FALSE
CONSTRAINT DirectBound
INVARIANTS
  ReplayRebuildsEngine
  ViewsPassValidation
  ViewsReconcile
  EveryViewHasRows
