CONSTANTS
  Null = Null
  None = None
  Requests <- MCRequests
  Accounts = {"settled", "held", "receivable", "payable", "treasury", "suspense", "abroad", "coins", "owed"}
  AccountOf <- MCAccountOf
  CreditNormal <- MCCreditNormal
  Rules <- MCRules
  Instants = {1}
  MaxEntries = 4
  MaxJournals = 7
  Commands <- MCCommands
  Direct <- MCDirect
  Clients = {c1, c2}
  Postings <- MCPostings
  Callers = {c1, c2, c3}
  Tiers = {"hot", "warm"}
  Networks = {"TON"}
  Days = {0, 1}
  SecondsPerDay = 2
  Horizon = 3
  DailyMaximum <- DailyMaximumOf
  PerTransactionMaximum <- PerTransactionMaximumOf
  TimeDelay <- TimeDelayOf
  LiveIntents <- MCLiveIntents
  Wires <- MCWires
  Foreign <- MCForeign
SPECIFICATION MCSpec
CHECK_DEADLOCK FALSE
INVARIANTS
  ControlAccountsReconcile
  CommittedJournalsComplete
  TierLimitsHold
  OutflowsExplained
PROPERTIES
  ImplementsMemoryLedger
  ImplementsProjection
