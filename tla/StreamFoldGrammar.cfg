CONSTANTS
  OrderIds = {o1, o2, o3}
  Instruments = {XAU}
  Owners = {alice}
  Null = Null
  Malformed = Malformed
  Prices = {1, 2}
  Units = {1, 2}
  Times = {0}
  MaxSafe = 7
SPECIFICATION Spec
CHECK_DEADLOCK FALSE
INVARIANTS
  AcceptsOnlyEngineStreams
