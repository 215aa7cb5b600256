SPECIFICATION FairSpec
CONSTANTS
  c1 = c1
  c2 = c2
  Clients = {c1, c2}
  MaxTransactions = 1
  MaxInvokeId = 4
  Elapsed = {0}
  Timeouts = {1}
  Retries = {1}
PROPERTIES EveryRequestEnds
