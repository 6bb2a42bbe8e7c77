SPECIFICATION FairSpec
CONSTANTS
  MaxSpans = 6
  BatchSize = 2
  MaxRetries = 3
  MaxLostReplies = 1
  Bad = {6}
INVARIANTS
  DeliveryIsSafe
PROPERTIES
  EventuallyDelivered
  LedgerSpec
\* Nothing happens any more once the queue is shut down.
CHECK_DEADLOCK FALSE
