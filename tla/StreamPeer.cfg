CONSTANTS
  Local = Local
  Remote = Remote
  Stranger = Stranger
  NoStream = NoStream
  BadPayload = BadPayload
  U64_MAX = 16
  U32_MAX = 2
  USIZE_RANGE = 17
  WINDOW_WORDS = 3
  WORD_BITS = 2
  FRESHNESS_WINDOW_MS = 1
  MAX_TRACKED_SENDERS = 2
  MAX_MESSAGE_TTL_MS = 2
  Cids = {c1, c2}
  MaxConcurrent = 1
  Grants = {1}
  PeerSeqs = {0, 1}
  PeerWindows = {1}
  MaxCalls = 3
  MaxCounter = 4
  Now = 2
SYMMETRY SymmetricCids
SPECIFICATION Spec
INVARIANTS TypeOK StreamsBounded ApplicationKnows ChunksAsGranted NoReflection
  RefusedIsInert PeerUndisturbed
