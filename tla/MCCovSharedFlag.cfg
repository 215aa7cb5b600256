SPECIFICATION Spec
CONSTANTS
  a1 = a1
  a2 = a2
  o1 = o1
  o2 = o2
  p1 = p1
  NoAddress = NoAddress
  NoProcess = NoProcess
  NoObject = NoObject
  Addresses = {a1, a2}
  ProcessIds = {p1}
  Objects = {o1}
  ObjectLists = {{o1}}
  MaxSubscriptions = 2
  MaxAddresses = 2
  MaxTransactions = 1
  MaxInvokeId = 2
  Confirmations = {TRUE, FALSE}
  Lifetimes = {0}
  ElapsedSeconds = {1}
  Milliseconds = 1
  ApduTimeout = 1
  ApduRetries = 1
  DatalinkFails = FALSE
INVARIANTS NoChangeIsMissed
