CONSTANTS
  a = a
  b = b
  c = c
  U64_MAX = 9
  U32_MAX = 1
  USIZE_RANGE = 8
  WINDOW_WORDS = 2
  WORD_BITS = 2
  FRESHNESS_WINDOW_MS = 1
  MAX_TRACKED_SENDERS = 1
  MaxNow = 2
  Messages <- OneSender
SPECIFICATION Spec
INVARIANT NeverTwice
