SPECIFICATION Spec
CONSTANTS
  s1 = s1
  s2 = s2
  o1 = o1
  o2 = o2
  Nobody = Nobody
  Subscribers = {s1, s2}
  Objects = {o1, o2}
  FirstObject = o1
  MaxSubscriptions = 2
  MaxAddresses = 2
  MaxTransactions = 1
  MaxInvokeId = 1
  Confirmations = {TRUE, FALSE}
  ApduTimeout = 1
  DatalinkFails = TRUE
  MaxRequests = 3
SYMMETRY SubscriberSymmetry
INVARIANTS EntriesAreAsAsked NotificationsAreTrue TransactionsAreHeld
