SPECIFICATION FairSpec
CONSTANTS
  MaxDevices = 2
  Instances = {1, 2}
  Subscribed = {1}
  People = {0, 1}
  Replies <- ChangingReplies
INVARIANTS TypeOK  ObjectsMatchDevices
PROPERTIES RefreshEnds DeletesOnlyWhenStopped MissedOnlyByStrays
