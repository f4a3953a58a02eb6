CONSTANTS
  None = None
  IdempotencyKeys = {k1, k2}
  BasisPoints = 4
  PriceUnit = 2
  BaseUnit = 2
  QuoteUnit = 1
  Spreads = {0, 1}
  Fees = {0, 1, 2}
  Mids = {1, 2, 3}
  Amounts = {1, 2, 3, 4, 5, 6}
  AmountLimit = 8
  MaxResources = 1
  Submits = {c1, c2}
  SessionIds = {i1}
  Applicants = {a1}
  Absent = Absent
  Scenarios = {"approve", "pending_timeout", "provider_outage",
               "duplicate_callback", "out_of_order_callback", "late_callback"}
  ReviewTimeout = 4
  ReviewDelay = 1
  DecisionDelays = {1, 2}
  LateDelay = 1
  ReorderDelay = 1
  MaxApplications = 2
  MaxAttempts = 2
  LastSubmission = 1
  Horizon = 6
  MaxAgeSeconds = 2
  MaxFutureSeconds = 1
  MaxNonces = 6
  Holders = {h1, h2}
  Addresses = {t1, t2}
  Subjects = {s1, s2}
  EventIds = {e1, e2, e3, e4}
  Sequences = {1, 2, 3}
  Instants = {1, 2}
  Statuses = {"payment_received", "duplicate_payment", "payment_reversed"}
  InitialStatus = "awaiting_payment"
  Transitions <- MCTransitions
  MaxSubjects = 1
  MaxEventIds = 3
SPECIFICATION MCSpec
CHECK_DEADLOCK FALSE
INVARIANTS
  CallbacksTellTheProvider
  KycFollowsProvider
  IssuedQuotesValidate
  CallbacksFoldInOrder
PROPERTIES
  ApplicationsEnd
