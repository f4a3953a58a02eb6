CONSTANTS
  reject = reject
  accept = accept
  rests = rests
  fills = fills
  Events <- MCEvents
  Openers <- MCOpeners
  Batches <- MCBatches
  Null = Null
  MaxLen = 3
  MaxCrashes = 1
SPECIFICATION FairSpec
CHECK_DEADLOCK FALSE
INVARIANTS
  ResolvedAppendsAreDurable
  UnlatchedWriterIsRecorded
  BarriersSeeAppends
PROPERTIES
  CloseSettlesInTheEnd
  RecordsWholeOperations
