CONSTANTS
  o1 = o1
  o2 = o2
  o3 = o3
  alice = alice
  XAU = XAU
  XAG = XAG
  OrderIds = {o1, o2, o3}
  Instruments = {XAU}
  Owners = {alice}
  Null = Null
  Malformed = Malformed
  Prices <- MCPrices
  Times <- MCTimes
  MaxSafe = 10
  Submissions <- MCSubmissions
  Cancellations <- MCCancellations
  Amendments <- MCAmendments
SPECIFICATION Spec
CHECK_DEADLOCK FALSE
CONSTRAINT NoRefusals
INVARIANTS
  NeverCrossed
  BookHoldsRestingOrders
  ExecutionsAddUp
  TailRebuildsEngine
  TornBatchRefused
PROPERTIES
  TerminalIsFinal
  KeepsPriceTimePriority
