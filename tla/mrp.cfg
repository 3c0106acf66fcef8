SPECIFICATION FairSpec
CONSTANTS
  M = 3
  MRP_MAX_TRANSMISSIONS = 2
  Start <- MCStart
  None = None
  MSG_RX_STATE_BITMAP_LEN = 2
  HALF = 16
  LastCtr = 3
INVARIANTS DoneMeansDelivered CounterIsOneMessage BufferNeverBlocksAck
PROPERTIES ImplementsDialogue SendingEnds RxBufferIsFreed
CHECK_DEADLOCK FALSE
