SPECIFICATION Spec
CONSTANTS
  MAX_RTP_SEQ = 15
  MAX_RTP_FRAME_CACHE_NUM = 2
  MAX_RTP_QUEUE_NUM = 4
  First = 14
  Window = 3
  MaxSent = 6
  MaxAudio = 1
INVARIANTS
  QueueIsInOrder
CHECK_DEADLOCK FALSE
