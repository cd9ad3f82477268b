CONSTANTS
  q1 = q1
  q2 = q2
  alice = alice
  bob = bob
  Queues <- TwoQueues
  Senders <- MCSenders
  BUNDLE_SIZE_IMMEDIATE = 2
  IDLE_TIME = 1
  MaxOps = 2
SPECIFICATION FairSpec
INVARIANTS TypeOK OneBundleAtATime HandledInOrder
PROPERTY FullQueueSent
