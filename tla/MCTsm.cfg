SPECIFICATION FairSpec
CONSTANTS
  c1 = c1
  c2 = c2
  Clients = {c1, c2}
  MaxTransactions = 2
  MaxInvokeId = 3
  Elapsed = {1}
  Timeouts = {1}
  Retries = {0, 1}
INVARIANTS TypeOK UniqueInvokeIds FreeSlotsAreIdle NoSlotLeaks BoundedTransmissions
PROPERTIES EveryRequestEnds IdsAreReusedLate GivesUpAfterAllRetries
