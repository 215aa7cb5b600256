SPECIFICATION Spec
CONSTANTS
  Writes <- MCWrites
  Multiples <- MCMultiples
  Reads <- MCReads
  SensorLists <- MCSensorLists
  Instance = 1
  Clock <- MCClock
  MultipleReads <- MCMultipleReads
  Ranges <- MCRanges
  Clients <- MCClients
  Orders <- MCOrders
  MaxRevision = 2
INVARIANTS TypeOK AcknowledgedWritesAreReadBack ErrorsNameTheFirstUnwritten
INVARIANTS RetriesAreHarmless NamesStayUnique MultipleReadsAgree DiscoveryAgrees
INVARIANTS RepliesReachTheirClients
PROPERTIES PagedListIsTrue
