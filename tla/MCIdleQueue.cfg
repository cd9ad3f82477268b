CONSTANTS
  q1 = q1
  q2 = q2
  alice = alice
  bob = bob
  Queues <- OneQueue
  Senders <- MCSenders
  BUNDLE_SIZE_IMMEDIATE = 3
  IDLE_TIME = 1
  MaxOps = 3
SPECIFICATION FairSpec
PROPERTY IdleQueueSent
