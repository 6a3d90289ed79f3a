CONSTANTS
  A = A
  B = B
  X = X
  t1 = t1
  t2 = t2
  short = short
  text = text
  bulky = bulky
  bomb = bomb
  huge = huge
  NoStream = NoStream
  Unsigned = Unsigned
  Ephemeral = Ephemeral
  U64_MAX = 16
  U32_MAX = 7
  USIZE_RANGE = 17
  WINDOW_WORDS = 2
  WORD_BITS = 2
  FRESHNESS_WINDOW_MS = 1
  MAX_TRACKED_SENDERS = 4
  MAX_MESSAGE_TTL_MS = 2
  MIN_COMPRESS_BYTES = 2
  MAX_DECOMPRESSED_BYTES = 5
  ENVELOPE_VERSION = 1
  MAX_ENVELOPE_BYTES = 8
  FIXED_BYTES = 3
  STREAM_BYTES = 1
  Nodes <- TwoNodes
  Unsound = {X}
  Payloads <- AllPayloads
  PayloadLen <- Lens
  ZstdLen <- FrameLens
  Sends <- SomeSends
  Kinds <- SomeKinds
  Dishonest = {B}
  Registering = {A}
  Crafted <- OneCrafted
  Lies <- SomeLies
  MaxSeals = 2
  MaxEpoch <- RotatingA
  MaxNow = 3
SPECIFICATION Spec
INVARIANTS TypeOK AuthenticExactly HandledOnce GoodMessageOpens SilentOnlyIfOneWay
  DeliveredWithinCap OneHandlerPerType
