CONSTANTS
  a = a
  b = b
  c = c
  U64_MAX = 3
  U32_MAX = 1
  USIZE_RANGE = 16
  WINDOW_WORDS = 2
  WORD_BITS = 1
  FRESHNESS_WINDOW_MS = 1
  MAX_TRACKED_SENDERS = 2
  MaxNow = 3
  Messages <- ThreeSenders
SPECIFICATION Spec
INVARIANTS TableBounded NeverTwice NothingNewRejected AgainOnlyIfLost
PROPERTIES EvictsLeastRecent ImplementsPromise
