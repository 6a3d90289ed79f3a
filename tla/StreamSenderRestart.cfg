CONSTANTS
  A = A
  B = B
  c1 = c1
  c2 = c2
  NoStream = NoStream
  BadPayload = BadPayload
  U64_MAX = 16
  U32_MAX = 2
  USIZE_RANGE = 17
  WINDOW_WORDS = 4
  WORD_BITS = 2
  FRESHNESS_WINDOW_MS = 1
  MAX_TRACKED_SENDERS = 2
  MAX_MESSAGE_TTL_MS = 2
  CidsOf <- TwoStreams
  MaxConcurrent <- RoomForTwo
  Grants = {1}
  TTLs = {}
  EarlyClose = FALSE
  Relay = FALSE
  Restartable = {A}
  MaxFrames <- ThreeEach
  MaxNow = 1
  MaxSealFailures = 0
  FailingFrames = {}
SPECIFICATION Spec
INVARIANT FirstDeliveryNotReplay
