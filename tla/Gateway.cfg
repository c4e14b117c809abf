SPECIFICATION FairSpec
CONSTANTS
  Frames = 2
  Payloads = {1, 2}
  RING_SIZE = 4
  QUEUE_SIZE = 1
  MaxChunk = 3
  NoPayload = NoPayload
  NULL = NULL
  Client = Client
  Reply = Reply
  Set = Set
INVARIANTS TypeOK ReadNeverBlocks NoSilentDrift NothingLost SubscribedWhileUp FramesArrive
PROPERTIES Drains ConnectionSettles
\* The line ends after Frames frames.
CHECK_DEADLOCK FALSE
