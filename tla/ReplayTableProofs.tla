------------------------- MODULE ReplayTableProofs -------------------------
(***************************************************************************)
(* Lemmas about the sender windows and the table of them, for every window *)
(* geometry, table size and freshness window: what the bitmap operations   *)
(* compute, and what one call of check_and_admit does to a table.          *)
(***************************************************************************)
EXTENDS ReplayTable, FiniteSetTheorems, TLAPS

(***************************************************************************)
(* Arithmetic of word and bit indices.                                     *)
(***************************************************************************)

\* Quotient and remainder of an index inside the window are a word and a bit.
LEMMA IndexInWindow ==
  ASSUME NEW o \in 0 .. REPLAY_WINDOW - 1
  PROVE  /\ o \div WORD_BITS \in Words
         /\ o % WORD_BITS \in Bits
         /\ o = (o \div WORD_BITS) * WORD_BITS + (o % WORD_BITS)
         /\ as_usize(o) = o
<1> DEFINE b == WORD_BITS
           n == WINDOW_WORDS
           q == o \div b
<1>1. b \in Nat \ {0} /\ n \in Nat \ {0} /\ USIZE_RANGE \in Nat
      /\ o \in Nat /\ o < n * b /\ o < USIZE_RANGE
  BY WindowAssumption, MachineAssumption DEF REPLAY_WINDOW
<1>2. q \in Nat /\ o % b \in 0 .. b - 1 /\ o = q * b + (o % b)
  BY <1>1
<1>3. q < n
  <2>1. SUFFICES ASSUME q >= n PROVE FALSE
    BY <1>1, <1>2
  <2>2. \A x, y, z \in Nat : x >= y => x * z >= y * z
    OBVIOUS
  <2>3. q * b >= n * b
    BY <1>1, <1>2, <2>1, <2>2
  <2> QED
    BY <1>1, <1>2, <2>3
<1>4. as_usize(o) = o
  BY <1>1 DEF as_usize
<1> QED
  BY <1>1, <1>2, <1>3, <1>4 DEF Words, Bits

\* Quotient and remainder are unique.
LEMMA QuotientRemainder ==
  ASSUME NEW b \in Nat \ {0}, NEW q \in Nat, NEW r \in 0 .. b - 1
  PROVE  (q * b + r) \div b = q /\ (q * b + r) % b = r
  OBVIOUS

Bitmaps == [Words -> SUBSET Bits]

\* Bit o of a bitmap, o < REPLAY_WINDOW, whatever word it is in.
BitAt(bits, o) == o % WORD_BITS \in bits[o \div WORD_BITS]

\* The word loop of shift_left, with its carries, is a shift of the whole
\* bitmap: bit o of the result is bit o - shift of the argument.
LEMMA ShiftedWordFlat ==
  ASSUME NEW bits \in Bitmaps,
         NEW shift \in 0 .. REPLAY_WINDOW - 1, NEW o \in 0 .. REPLAY_WINDOW - 1
  PROVE  o % WORD_BITS \in ShiftedWord(bits, shift \div WORD_BITS, shift % WORD_BITS,
                                       o \div WORD_BITS)
         <=> o >= shift /\ BitAt(bits, o - shift)
<1> DEFINE b == WORD_BITS
           q == o \div b
           r == o % b
           p == shift \div b
           s == shift % b
<1>0. b \in Nat \ {0} /\ o \in Nat /\ shift \in Nat
  BY WindowAssumption
<1>1. q \in Words /\ r \in Bits /\ o = q * b + r
  BY IndexInWindow
<1>2. p \in Words /\ s \in Bits /\ shift = p * b + s
  BY IndexInWindow
<1>3. q \in Nat /\ r \in 0 .. b - 1 /\ p \in Nat /\ s \in 0 .. b - 1
  BY <1>1, <1>2, WindowAssumption DEF Words, Bits
<1>d. \A x, y, z \in Int : x * z - y * z = (x - y) * z
  OBVIOUS
<1>n. \A x, z \in Nat : x * z >= 0
  OBVIOUS
<1> HIDE DEF q, r, p, s
<1>4. CASE q < p
  <2>1. ShiftedWord(bits, p, s, q) = {}
    BY <1>4 DEF ShiftedWord
  <2>2. \A x, y, z \in Nat : x < y => x * z + z <= y * z
    OBVIOUS
  <2>3. o < shift
    BY <1>0, <1>1, <1>2, <1>3, <1>4, <2>2
  <2> QED
    BY <1>0, <2>1, <2>3 DEF q, r, p, s
<1>5. CASE q >= p /\ r >= s
  <2>1. q * b - p * b = (q - p) * b /\ q - p \in Nat /\ q - p \in Words
    <3>1. q - p \in Nat /\ q - p \in Words
      BY <1>1, <1>3, <1>5, WindowAssumption DEF Words
    <3>2. q * b - p * b = (q - p) * b
      BY <1>0, <1>3, <1>d
    <3> QED
      BY <3>1, <3>2
  <2>2. o - shift = (q - p) * b + (r - s) /\ r - s \in 0 .. b - 1
    BY <1>0, <1>1, <1>2, <1>3, <1>5, <2>1
  <2>3. (o - shift) \div b = q - p /\ (o - shift) % b = r - s
    BY <1>0, <2>1, <2>2, QuotientRemainder
  <2>4. o >= shift
    <3>1. (q - p) * b >= 0 /\ (q - p) * b \in Int
      BY <1>0, <1>n, <2>1
    <3> QED
      BY <1>0, <2>2, <3>1
  <2>5. r \in ShiftedWord(bits, p, s, q) <=> r - s \in bits[q - p]
    <3>1. r \in Shl(bits[q - p], s) <=> r - s \in bits[q - p]
      BY <1>1 DEF Shl
    <3>2. ASSUME s > 0, q > p PROVE r \notin Shr(bits[q - p - 1], b - s)
      <4>1. q - p - 1 \in Words
        BY <1>1, <1>3, <3>2, WindowAssumption DEF Words
      <4>2. bits[q - p - 1] \subseteq Bits
        BY <4>1 DEF Bitmaps
      <4>3. r + (b - s) \notin Bits
        BY <1>0, <1>3, <1>5 DEF Bits
      <4> QED
        BY <4>2, <4>3 DEF Shr
    <3> QED
      BY <1>3, <1>5, <3>1, <3>2 DEF ShiftedWord
  <2> QED
    BY <2>3, <2>4, <2>5 DEF BitAt, q, r, p, s
<1>6. CASE q > p /\ r < s
  <2>1. /\ q * b - p * b = (q - p - 1) * b + b
        /\ q - p - 1 \in Nat /\ q - p - 1 \in Words /\ q - p \in Words
    <3>1. q - p - 1 \in Nat /\ q - p - 1 \in Words /\ q - p \in Words
      BY <1>1, <1>3, <1>6, WindowAssumption DEF Words
    <3>2. q * b - p * b = (q - p) * b
      BY <1>0, <1>3, <1>d
    <3>3. (q - p) * b - 1 * b = (q - p - 1) * b
      BY <1>0, <1>3, <1>d
    <3> QED
      BY <1>0, <1>3, <3>1, <3>2, <3>3
  <2>2. o - shift = (q - p - 1) * b + (r + (b - s)) /\ r + (b - s) \in 0 .. b - 1
    BY <1>0, <1>1, <1>2, <1>3, <1>6, <2>1
  <2>3. (o - shift) \div b = q - p - 1 /\ (o - shift) % b = r + (b - s)
    <3> DEFINE u == q - p - 1
               v == r + (b - s)
    <3>1. u \in Nat /\ v \in 0 .. b - 1 /\ o - shift = u * b + v
      BY <2>1, <2>2
    <3> HIDE DEF u, v
    <3>2. (o - shift) \div b = u /\ (o - shift) % b = v
      BY <1>0, <3>1, QuotientRemainder
    <3> QED
      BY <3>2 DEF u, v
  <2>4. o >= shift
    <3>1. (q - p - 1) * b >= 0 /\ (q - p - 1) * b \in Int
      BY <1>0, <1>n, <2>1
    <3> QED
      BY <1>0, <2>2, <3>1
  <2>5. r \in ShiftedWord(bits, p, s, q) <=> r + (b - s) \in bits[q - p - 1]
    <3>1. r \in Shr(bits[q - p - 1], b - s) <=> r + (b - s) \in bits[q - p - 1]
      BY <1>1 DEF Shr
    <3>2. r \notin Shl(bits[q - p], s)
      <4>1. bits[q - p] \subseteq Bits
        BY <2>1 DEF Bitmaps
      <4>2. r - s \notin Bits
        BY <1>0, <1>3, <1>6 DEF Bits
      <4> QED
        BY <4>1, <4>2 DEF Shl
    <3> QED
      BY <1>3, <1>6, <3>1, <3>2 DEF ShiftedWord
  <2> QED
    BY <2>3, <2>4, <2>5 DEF BitAt, q, r, p, s
<1>7. CASE q = p /\ r < s
  <2>1. o < shift
    BY <1>0, <1>1, <1>2, <1>3, <1>7
  <2>2. r \notin Shl(bits[q - p], s)
    <3>1. q - p \in Words
      BY <1>3, <1>7, WindowAssumption DEF Words
    <3>2. bits[q - p] \subseteq Bits
      BY <3>1 DEF Bitmaps
    <3>3. r - s \notin Bits
      BY <1>0, <1>3, <1>7 DEF Bits
    <3> QED
      BY <3>2, <3>3 DEF Shl
  <2>3. r \notin ShiftedWord(bits, p, s, q)
    BY <1>3, <1>7, <2>2 DEF ShiftedWord
  <2> QED
    BY <1>0, <2>1, <2>3 DEF q, r, p, s
<1> QED
  BY <1>3, <1>4, <1>5, <1>6, <1>7

(***************************************************************************)
(* The operations on the bitmap.                                           *)
(***************************************************************************)
Offsets == 0 .. REPLAY_WINDOW - 1

\* get_bit reads the bit of its offset.
LEMMA GetBit ==
  ASSUME NEW bits \in Bitmaps, NEW o \in Offsets
  PROVE  get_bit(bits, o) <=> BitAt(bits, o)
  BY IndexInWindow DEF Offsets, get_bit, BitAt

\* set_bit keeps the shape of the bitmap, whatever the platform's usize.
LEMMA SetBitType ==
  ASSUME NEW bits \in Bitmaps, NEW o \in Nat, as_usize(o) < REPLAY_WINDOW
  PROVE  set_bit(bits, o) \in Bitmaps
<1> DEFINE i == as_usize(o)
<1>1. i \in 0 .. REPLAY_WINDOW - 1
  <2>1. i \in Nat
    BY MachineAssumption DEF as_usize
  <2>2. REPLAY_WINDOW \in Nat
    BY WindowAssumption DEF REPLAY_WINDOW
  <2> QED
    BY <2>1, <2>2
<1> HIDE DEF i
<1>2. i \div WORD_BITS \in Words /\ i % WORD_BITS \in Bits
  BY <1>1, IndexInWindow
<1>3. set_bit(bits, o) = [bits EXCEPT ![i \div WORD_BITS] = @ \cup {i % WORD_BITS}]
  BY DEF set_bit, i
<1> QED
  BY <1>2, <1>3 DEF Bitmaps

\* set_bit sets the bit of its offset and no other.
LEMMA SetBit ==
  ASSUME NEW bits \in Bitmaps, NEW o \in Offsets, NEW i \in Offsets
  PROVE  BitAt(set_bit(bits, o), i) <=> i = o \/ BitAt(bits, i)
<1>1. /\ o \div WORD_BITS \in Words
      /\ o = (o \div WORD_BITS) * WORD_BITS + (o % WORD_BITS)
      /\ as_usize(o) = o
  BY IndexInWindow DEF Offsets
<1>2. /\ i \div WORD_BITS \in Words
      /\ i = (i \div WORD_BITS) * WORD_BITS + (i % WORD_BITS)
  BY IndexInWindow DEF Offsets
<1>3. set_bit(bits, o) = [bits EXCEPT ![o \div WORD_BITS] = @ \cup {o % WORD_BITS}]
  BY <1>1 DEF set_bit
<1>4. CASE i \div WORD_BITS = o \div WORD_BITS
  <2>1. set_bit(bits, o)[i \div WORD_BITS] = bits[i \div WORD_BITS] \cup {o % WORD_BITS}
    BY <1>1, <1>3, <1>4 DEF Bitmaps
  <2>2. i % WORD_BITS = o % WORD_BITS <=> i = o
    BY <1>1, <1>2, <1>4
  <2> QED
    BY <2>1, <2>2 DEF BitAt
<1>5. CASE i \div WORD_BITS # o \div WORD_BITS
  <2>1. set_bit(bits, o)[i \div WORD_BITS] = bits[i \div WORD_BITS]
    BY <1>2, <1>3, <1>5 DEF Bitmaps
  <2> QED
    BY <2>1, <1>5 DEF BitAt
<1> QED
  BY <1>4, <1>5

\* shift_left keeps the shape of the bitmap, whatever the platform's usize.
LEMMA ShiftLeftType ==
  ASSUME NEW bits \in Bitmaps, NEW diff \in Nat
  PROVE  shift_left(bits, diff) \in Bitmaps
<1>1. NoBits \in Bitmaps
  BY DEF NoBits, Bitmaps
<1>2. ASSUME NEW p, NEW s, NEW i \in Words
      PROVE  ShiftedWord(bits, p, s, i) \subseteq Bits
  BY DEF ShiftedWord, Shl, Shr
<1> QED
  BY <1>1, <1>2 DEF shift_left, Bitmaps

\* On a platform whose usize holds the distance, shift_left moves every bit up
\* by it; the bits that leave the window are lost and zeroes move in.
LEMMA ShiftLeft ==
  ASSUME NEW bits \in Bitmaps, NEW diff \in Nat, diff < USIZE_RANGE, NEW i \in Offsets
  PROVE  BitAt(shift_left(bits, diff), i) <=> i >= diff /\ BitAt(bits, i - diff)
<1>1. as_usize(diff) = diff
  BY MachineAssumption DEF as_usize
<1>2. REPLAY_WINDOW \in Nat /\ i \in Nat /\ i < REPLAY_WINDOW
  BY WindowAssumption DEF Offsets, REPLAY_WINDOW
<1>3. i \div WORD_BITS \in Words
  BY IndexInWindow DEF Offsets
<1>4. CASE diff >= REPLAY_WINDOW
  <2>1. shift_left(bits, diff)[i \div WORD_BITS] = {}
    BY <1>1, <1>3, <1>4 DEF shift_left, NoBits
  <2> QED
    BY <1>2, <1>4, <2>1 DEF BitAt
<1>5. CASE diff < REPLAY_WINDOW
  <2>1. shift_left(bits, diff)[i \div WORD_BITS]
          = ShiftedWord(bits, diff \div WORD_BITS, diff % WORD_BITS, i \div WORD_BITS)
    BY <1>1, <1>2, <1>3, <1>5 DEF shift_left
  <2>2. diff \in 0 .. REPLAY_WINDOW - 1
    BY <1>2, <1>5
  <2> QED
    BY <2>1, <2>2, ShiftedWordFlat DEF BitAt, Offsets
<1> QED
  BY <1>2, <1>4, <1>5

(***************************************************************************)
(* SenderWindow::admit.                                                    *)
(***************************************************************************)

\* A window in use, or a new one.
Proper(w) == w \in Windows /\ (w.started \/ w = NewWindow)

\* A window that was just made is proper.
LEMMA NewWindowProper == Proper(NewWindow)
  BY MachineAssumption DEF Proper, NewWindow, Windows, U64, NoBits

\* admit on an accepted counter returns a window in use.
LEMMA AdmitType ==
  ASSUME NEW w, Proper(w), NEW c \in U64, Admits(w, c)
  PROVE  /\ admit(w, c) \in Windows
         /\ admit(w, c).started
         /\ admit(w, c).last_seen_ms = w.last_seen_ms
         /\ admit(w, c).highest = IF w.started /\ c <= w.highest THEN w.highest ELSE c
<1>1. /\ w \in Windows /\ w.bits \in Bitmaps
      /\ w.highest \in U64 /\ w.highest \in Nat /\ c \in Nat
  BY DEF Proper, Windows, Bitmaps, U64
<1>2. U64 \subseteq Nat /\ REPLAY_WINDOW \in Nat \ {0} /\ as_usize(0) = 0
  BY MachineAssumption, WindowAssumption DEF U64, REPLAY_WINDOW, as_usize
<1>3. \A b \in Bitmaps : set_bit(b, 0) \in Bitmaps
  BY <1>2, SetBitType
<1>4. CASE ~w.started
  <2>1. admit(w, c) = [w EXCEPT !.started = TRUE, !.highest = c, !.bits = set_bit(w.bits, 0)]
    BY <1>4 DEF admit
  <2> QED
    BY <1>1, <1>3, <1>4, <2>1 DEF Windows, Bitmaps
<1>5. CASE w.started /\ c > w.highest
  <2>1. c - w.highest \in Nat
    BY <1>1, <1>2, <1>5
  <2>2. set_bit(shift_left(w.bits, c - w.highest), 0) \in Bitmaps
    BY <1>1, <1>3, <2>1, ShiftLeftType
  <2>3. admit(w, c) = [w EXCEPT !.bits = set_bit(shift_left(w.bits, c - w.highest), 0),
                                !.highest = c]
    BY <1>5 DEF admit
  <2>4. ~(c <= w.highest)
    BY <1>1, <1>5
  <2>5. admit(w, c) \in Windows
    BY <1>1, <2>2, <2>3 DEF Windows, Bitmaps
  <2>6. /\ admit(w, c).started = w.started
        /\ admit(w, c).last_seen_ms = w.last_seen_ms
        /\ admit(w, c).highest = c
    BY <1>1, <2>3 DEF Windows
  <2> QED
    BY <1>5, <2>4, <2>5, <2>6
<1>6. CASE w.started /\ ~(c > w.highest)
  <2>1. w.highest - c \in Nat /\ as_usize(w.highest - c) < REPLAY_WINDOW
    BY <1>1, <1>2, <1>6 DEF Admits
  <2>2. set_bit(w.bits, w.highest - c) \in Bitmaps
    BY <1>1, <2>1, SetBitType
  <2>3. admit(w, c) = [w EXCEPT !.bits = set_bit(w.bits, w.highest - c)]
    BY <1>6 DEF admit
  <2> QED
    BY <1>1, <1>2, <1>6, <2>2, <2>3 DEF Windows, Bitmaps
<1> QED
  BY <1>4, <1>5, <1>6

\* The window remembers that it accepted counter n.
Holds(w, n) == w.started /\ w.highest - n \in Offsets /\ BitAt(w.bits, w.highest - n)

\* The platform's usize holds every u64 (true of the 64-bit targets).
WideUsize == U64_MAX < USIZE_RANGE

\* On such a platform a window in use accepts a counter exactly when it is above
\* the highest one, or inside the window and not remembered.
LEMMA AdmitsExactly ==
  ASSUME WideUsize, NEW w \in Windows, w.started, NEW c \in U64
  PROVE  Admits(w, c) <=> \/ c > w.highest
                          \/ w.highest - c \in Offsets /\ ~Holds(w, c)
<1>1. w.highest \in U64 /\ w.bits \in Bitmaps
  BY DEF Windows, Bitmaps
<1>2. U64 \subseteq Nat /\ REPLAY_WINDOW \in Nat
  BY WindowAssumption DEF U64, REPLAY_WINDOW
<1>3. CASE c > w.highest
  BY <1>3 DEF Admits
<1>4. CASE ~(c > w.highest)
  <2>1. w.highest - c \in Nat /\ w.highest - c < USIZE_RANGE
    BY <1>1, <1>2, <1>4, MachineAssumption DEF WideUsize, U64
  <2>2. as_usize(w.highest - c) = w.highest - c
    BY <2>1, MachineAssumption DEF as_usize
  <2>3. w.highest - c \in Offsets => (get_bit(w.bits, w.highest - c) <=> Holds(w, c))
    BY <1>1, GetBit DEF Holds
  <2>4. w.highest - c < REPLAY_WINDOW <=> w.highest - c \in Offsets
    BY <1>2, <2>1 DEF Offsets
  <2> QED
    BY <1>4, <2>2, <2>3, <2>4 DEF Admits
<1> QED
  BY <1>3, <1>4

\* The window admit leaves remembers the new counter and what it remembered
\* before, as far as that is still inside the window.
LEMMA AdmitHolds ==
  ASSUME WideUsize, NEW w, Proper(w), NEW c \in U64, Admits(w, c), NEW n \in Int
  PROVE  Holds(admit(w, c), n) <=> /\ admit(w, c).highest - n \in Offsets
                                   /\ n = c \/ Holds(w, n)
<1> DEFINE v == admit(w, c)
<1>1. w \in Windows /\ w.bits \in Bitmaps /\ w.highest \in Nat /\ c \in Nat
  BY DEF Proper, Windows, Bitmaps, U64
<1>2. /\ v.started
      /\ v.highest = IF w.started /\ c <= w.highest THEN w.highest ELSE c
      /\ v.highest \in Nat
  BY <1>1, AdmitType DEF Windows, U64
<1>3. 0 \in Offsets /\ REPLAY_WINDOW \in Nat
  BY WindowAssumption DEF REPLAY_WINDOW, Offsets
<1>4. SUFFICES ASSUME v.highest - n \in Offsets
               PROVE  BitAt(v.bits, v.highest - n) <=> n = c \/ Holds(w, n)
  BY <1>2 DEF Holds
<1>5. CASE ~w.started
  <2>1. v.bits = set_bit(w.bits, 0) /\ v.highest = c
    BY <1>1, <1>2, <1>5 DEF admit, Windows
  <2>2. BitAt(v.bits, c - n) <=> c - n = 0 \/ BitAt(w.bits, c - n)
    BY <1>1, <1>3, <1>4, <2>1, SetBit
  <2>3. ~BitAt(w.bits, c - n)
    <3>1. w.bits = NoBits
      BY <1>5 DEF Proper, NewWindow
    <3>2. (c - n) \div WORD_BITS \in Words
      BY <1>4, <2>1, IndexInWindow DEF Offsets
    <3> QED
      BY <3>1, <3>2 DEF BitAt, NoBits
  <2> QED
    BY <1>1, <1>5, <2>1, <2>2, <2>3 DEF Holds
<1>6. CASE w.started /\ c > w.highest
  <2> DEFINE d == c - w.highest
  <2>1. v.bits = set_bit(shift_left(w.bits, d), 0) /\ v.highest = c
    BY <1>1, <1>2, <1>6 DEF admit, Windows
  <2>2. d \in Nat /\ d < USIZE_RANGE
    BY <1>1, <1>6, MachineAssumption DEF WideUsize, U64
  <2>3. shift_left(w.bits, d) \in Bitmaps
    BY <1>1, <2>2, ShiftLeftType
  <2>4. BitAt(v.bits, c - n) <=> c - n = 0 \/ BitAt(shift_left(w.bits, d), c - n)
    BY <1>3, <1>4, <2>1, <2>3, SetBit
  <2>5. BitAt(shift_left(w.bits, d), c - n) <=> c - n >= d /\ BitAt(w.bits, c - n - d)
    BY <1>1, <1>4, <2>1, <2>2, ShiftLeft
  <2>6. c - n - d = w.highest - n
    BY <1>1, <2>2
  <2>7. c - n >= d <=> w.highest - n \in Offsets
    BY <1>1, <1>3, <1>4, <1>6, <2>1 DEF Offsets
  <2> QED
    BY <1>1, <1>6, <2>1, <2>4, <2>5, <2>6, <2>7 DEF Holds
<1>7. CASE w.started /\ ~(c > w.highest)
  <2>1. v.bits = set_bit(w.bits, w.highest - c) /\ v.highest = w.highest
    BY <1>1, <1>2, <1>7 DEF admit, Windows
  <2>2. w.highest - c \in Offsets
    BY <1>1, <1>7, AdmitsExactly DEF U64
  <2>3. BitAt(v.bits, w.highest - n) <=> w.highest - n = w.highest - c
                                         \/ BitAt(w.bits, w.highest - n)
    BY <1>1, <1>4, <2>1, <2>2, SetBit
  <2> QED
    BY <1>1, <1>4, <1>7, <2>1, <2>3 DEF Holds
<1> QED
  BY <1>5, <1>6, <1>7

\* The window remembers exactly those of the counters S that are inside it, and
\* its highest counter is the highest of S.
Tracks(w, S) ==
  /\ w.highest \in S
  /\ \A n \in S : n <= w.highest
  /\ \A n \in Int : Holds(w, n) <=> w.highest - n \in Offsets /\ n \in S

\* Such a window accepts a counter exactly when it is not in S and S has not
\* outrun it by the width of the window.
LEMMA TracksAdmits ==
  ASSUME WideUsize, NEW w \in Windows, w.started, NEW S \in SUBSET U64, Tracks(w, S),
         NEW c \in U64
  PROVE  Admits(w, c) <=> \A n \in S : n # c /\ n < c + REPLAY_WINDOW
<1>1. U64 \subseteq Nat /\ REPLAY_WINDOW \in Nat \ {0}
  BY WindowAssumption DEF U64, REPLAY_WINDOW
<1>2. w.highest \in Nat /\ c \in Nat /\ S \subseteq Nat
  BY <1>1 DEF Windows
<1>3. Admits(w, c) <=> c > w.highest \/ (w.highest - c \in Offsets /\ ~Holds(w, c))
  BY AdmitsExactly
<1>4. CASE c > w.highest
  <2>1. \A n \in S : n # c /\ n < c + REPLAY_WINDOW
    BY <1>1, <1>2, <1>4 DEF Tracks
  <2> QED
    BY <1>3, <1>4, <2>1
<1>5. CASE ~(c > w.highest)
  <2>1. w.highest - c \in Offsets <=> w.highest < c + REPLAY_WINDOW
    BY <1>1, <1>2, <1>5 DEF Offsets
  <2>2. (\A n \in S : n < c + REPLAY_WINDOW) <=> w.highest < c + REPLAY_WINDOW
    BY <1>1, <1>2 DEF Tracks
  <2>3. w.highest - c \in Offsets => (Holds(w, c) <=> c \in S)
    BY <1>2 DEF Tracks
  <2> QED
    BY <1>3, <1>5, <2>1, <2>2, <2>3
<1> QED
  BY <1>4, <1>5

\* A new window that accepts its first counter tracks it.
LEMMA TracksFirst ==
  ASSUME WideUsize, NEW c \in U64
  PROVE  Tracks(admit(NewWindow, c), {c})
<1>1. Proper(NewWindow) /\ Admits(NewWindow, c) /\ c \in Nat
  BY NewWindowProper DEF Admits, NewWindow, U64
<1>2. admit(NewWindow, c).highest = c
  BY <1>1, AdmitType DEF NewWindow
<1>3. \A n \in Int : ~Holds(NewWindow, n)
  BY DEF Holds, NewWindow
<1>4. \A n \in Int : Holds(admit(NewWindow, c), n) <=> c - n \in Offsets /\ n = c
  BY <1>1, <1>2, <1>3, AdmitHolds
<1> QED
  BY <1>1, <1>2, <1>4 DEF Tracks

\* A window that accepts one more counter tracks that one as well.
LEMMA TracksAdmit ==
  ASSUME WideUsize, NEW w \in Windows, w.started, NEW S \in SUBSET U64, Tracks(w, S),
         NEW c \in U64, Admits(w, c)
  PROVE  Tracks(admit(w, c), S \cup {c})
<1> DEFINE v == admit(w, c)
<1>1. U64 \subseteq Nat /\ REPLAY_WINDOW \in Nat \ {0}
  BY WindowAssumption DEF U64, REPLAY_WINDOW
<1>2. w.highest \in Nat /\ c \in Nat /\ S \subseteq Nat /\ Proper(w)
  BY <1>1 DEF Windows, Proper
<1>3. v.highest = IF c <= w.highest THEN w.highest ELSE c
  BY <1>2, AdmitType
<1>4. \A n \in Int : Holds(v, n) <=> v.highest - n \in Offsets /\ (n = c \/ Holds(w, n))
  BY <1>2, AdmitHolds
<1>5. v.highest \in S \cup {c} /\ \A n \in S \cup {c} : n <= v.highest
  BY <1>2, <1>3 DEF Tracks
<1>6. ASSUME NEW n \in Int, v.highest - n \in Offsets
      PROVE  Holds(w, n) \/ n = c <=> n \in S \cup {c}
  <2>1. Holds(w, n) => n \in S
    BY DEF Tracks
  <2>2. ASSUME n \in S PROVE Holds(w, n)
    <3>1. n <= w.highest
      BY <2>2 DEF Tracks
    <3>2. w.highest - n \in Offsets
      BY <1>1, <1>2, <1>3, <1>6, <3>1 DEF Offsets
    <3> QED
      BY <2>2, <3>2 DEF Tracks
  <2> QED
    BY <2>1, <2>2
<1> QED
  BY <1>4, <1>5, <1>6 DEF Tracks

\* A window that refuses a counter tracks it too: it was there or is below.
LEMMA TracksRefuse ==
  ASSUME WideUsize, NEW w \in Windows, w.started, NEW S \in SUBSET U64, Tracks(w, S),
         NEW c \in U64, ~Admits(w, c)
  PROVE  Tracks(w, S \cup {c})
<1>1. c \in Nat /\ w.highest \in Nat
  BY DEF U64, Windows
<1>2. c <= w.highest /\ (w.highest - c \in Offsets => Holds(w, c))
  <2>1. ~(c > w.highest) /\ ~(w.highest - c \in Offsets /\ ~Holds(w, c))
    BY AdmitsExactly
  <2> QED
    BY <1>1, <2>1
<1>3. w.highest - c \in Offsets => c \in S
  BY <1>1, <1>2 DEF Tracks
<1> QED
  BY <1>2, <1>3 DEF Tracks

(***************************************************************************)
(* ReplayGuard::check_and_admit on a table.                                *)
(***************************************************************************)

\* The window check_and_admit consults for a key.
Current(tab, key) == IF key \in DOMAIN tab THEN tab[key] ELSE NewWindow

\* The senders evict_if_full may drop before the key is entered.
Evicts(tab, E, key) ==
  \/ /\ E = {}
     /\ key \in DOMAIN tab \/ Cardinality(DOMAIN tab) < MAX_TRACKED_SENDERS
  \/ /\ key \notin DOMAIN tab
     /\ ~(Cardinality(DOMAIN tab) < MAX_TRACKED_SENDERS)
     /\ \E k \in LeastRecentlySeen(tab) : E = {k}

\* The table after a counter was accepted and the senders in E were dropped.
TableAfter(tab, E, key, counter, ts) ==
  [k \in (DOMAIN tab \ E) \cup {key} |->
     IF k = key THEN SeenAt(admit(Current(tab, key), counter), ts) ELSE tab[k]]

\* The entry of a key: what is dropped, what is kept, what is new.
EntryOf(tab, key, E, t) ==
  /\ Evicts(tab, E, key) /\ key \notin E
  /\ DOMAIN t = (DOMAIN tab \ E) \cup {key}
  /\ \A k \in DOMAIN t : t[k] = IF k = key THEN Current(tab, key) ELSE tab[k]

\* HashMap::entry on a key, with the eviction before it, leaves such a table.
LEMMA EnteredShape ==
  ASSUME NEW tab, NEW key, NEW t \in Entered(tab, key)
  PROVE  \E E \in SUBSET DOMAIN tab : EntryOf(tab, key, E, t)
<1> USE DEF EntryOf
<1>1. CASE key \in DOMAIN tab
  <2>1. t = tab
    BY <1>1 DEF Entered
  <2>2. Evicts(tab, {}, key) /\ DOMAIN t = (DOMAIN tab \ {}) \cup {key}
    BY <1>1, <2>1 DEF Evicts
  <2> QED
    BY <1>1, <2>1, <2>2 DEF Current
<1>2. CASE key \notin DOMAIN tab
  <2>1. PICK t0 \in evict_if_full(tab) : t = Insert(t0, key, NewWindow)
    BY <1>2 DEF Entered
  <2>2. PICK E \in SUBSET DOMAIN tab :
          /\ Evicts(tab, E, key)
          /\ DOMAIN t0 = DOMAIN tab \ E
          /\ \A k \in DOMAIN t0 : t0[k] = tab[k]
    <3>1. CASE Cardinality(DOMAIN tab) < MAX_TRACKED_SENDERS
      <4>1. t0 = tab
        BY <3>1 DEF evict_if_full
      <4>2. Evicts(tab, {}, key)
        BY <3>1 DEF Evicts
      <4> QED
        BY <4>1, <4>2
    <3>2. CASE ~(Cardinality(DOMAIN tab) < MAX_TRACKED_SENDERS)
      <4>1. PICK v \in LeastRecentlySeen(tab) : t0 = Remove(tab, v)
        BY <3>2 DEF evict_if_full
      <4>2. Evicts(tab, {v}, key) /\ {v} \in SUBSET DOMAIN tab
        BY <1>2, <3>2, <4>1 DEF Evicts, LeastRecentlySeen
      <4> QED
        BY <4>1, <4>2 DEF Remove, Restrict
    <3> QED
      BY <3>1, <3>2
  <2>3. /\ DOMAIN t = DOMAIN t0 \cup {key}
        /\ \A k \in DOMAIN t : t[k] = IF k = key THEN NewWindow ELSE t0[k]
    BY <2>1 DEF Insert
  <2>4. /\ key \notin E
        /\ DOMAIN t = (DOMAIN tab \ E) \cup {key}
        /\ \A k \in DOMAIN t : t[k] = IF k = key THEN Current(tab, key) ELSE tab[k]
    BY <1>2, <2>2, <2>3 DEF Current
  <2> QED
    BY <2>2, <2>4
<1> QED
  BY <1>1, <1>2

\* The verdict of check_and_admit: fresh, and new to the sender's window.
Passes(tab, key, counter, ts, now_ms) ==
  Fresh(ts, now_ms) /\ Admits(Current(tab, key), counter)

\* An accepted message is entered, after the eviction of E, and recorded.
RecordedAs(tab, E, key, counter, ts, new) ==
  Evicts(tab, E, key) /\ key \notin E /\ new = TableAfter(tab, E, key, counter, ts)

\* check_and_admit rejects and changes nothing, or accepts and records.
LEMMA VerdictShape ==
  ASSUME NEW tab, NEW key, NEW counter, NEW ts, NEW now_ms,
         NEW r \in check_and_admit(tab, key, counter, ts, now_ms)
  PROVE  \/ r.ok = FALSE /\ r.tab = tab /\ ~Passes(tab, key, counter, ts, now_ms)
         \/ /\ r.ok = TRUE /\ Passes(tab, key, counter, ts, now_ms)
            /\ \E E \in SUBSET DOMAIN tab : RecordedAs(tab, E, key, counter, ts, r.tab)
<1> USE DEF Passes, RecordedAs
<1>1. CASE ~Fresh(ts, now_ms)
  BY <1>1 DEF check_and_admit
<1>2. CASE Fresh(ts, now_ms)
  <2>1. PICK t \in Entered(tab, key) :
          r = IF Admits(t[key], counter)
                THEN [ok |-> TRUE, tab |-> Recorded(t, key, counter, ts)]
                ELSE [ok |-> FALSE, tab |-> t]
    BY <1>2 DEF check_and_admit
  <2>a. PICK E \in SUBSET DOMAIN tab : EntryOf(tab, key, E, t)
    BY EnteredShape
  <2>2. /\ Evicts(tab, E, key) /\ key \notin E
        /\ DOMAIN t = (DOMAIN tab \ E) \cup {key}
        /\ \A k \in DOMAIN t : t[k] = IF k = key THEN Current(tab, key) ELSE tab[k]
    BY <2>a DEF EntryOf
  <2>3. t[key] = Current(tab, key)
    BY <2>2
  <2>4. CASE Admits(t[key], counter)
    <3>1. r.ok = TRUE /\ r.tab = Recorded(t, key, counter, ts)
      BY <2>1, <2>4
    <3>2. Recorded(t, key, counter, ts) = TableAfter(tab, E, key, counter, ts)
      BY <2>2, <2>3 DEF Recorded, TableAfter
    <3> QED
      BY <1>2, <2>2, <2>3, <2>4, <3>1, <3>2
  <2>5. CASE ~Admits(t[key], counter)
    <3>1. r.ok = FALSE /\ r.tab = t
      BY <2>1, <2>5
    <3>2. key \in DOMAIN tab
      BY <2>3, <2>5 DEF Current, Admits, NewWindow
    <3>3. t = tab
      BY <3>2 DEF Entered
    <3> QED
      BY <2>3, <2>5, <3>1, <3>3
  <2> QED
    BY <2>4, <2>5
<1> QED
  BY <1>1, <1>2

\* An accepted message's timestamp moves last_seen_ms up to it and nothing else.
LEMMA SeenAtFields ==
  ASSUME NEW w \in Windows, NEW ts \in U64
  PROVE  /\ SeenAt(w, ts) \in Windows
         /\ SeenAt(w, ts).highest = w.highest
         /\ SeenAt(w, ts).bits = w.bits
         /\ SeenAt(w, ts).started = w.started
         /\ SeenAt(w, ts).last_seen_ms = IF w.last_seen_ms < ts THEN ts ELSE w.last_seen_ms
  BY DEF SeenAt, Windows

\* The timestamp of an accepted message has no part in what a window tracks.
LEMMA TracksSeenAt ==
  ASSUME NEW w \in Windows, NEW ts \in U64, NEW S, Tracks(w, S)
  PROVE  Tracks(SeenAt(w, ts), S)
  BY SeenAtFields DEF Tracks, Holds

\* Adding one sender to a finite set of senders adds at most one to its size:
\* the accounting behind HashMap::entry.
LEMMA AddOne ==
  ASSUME NEW S, NEW x, IsFiniteSet(S)
  PROVE  /\ IsFiniteSet(S \cup {x})
         /\ Cardinality(S \cup {x}) \in Nat
         /\ Cardinality(S \cup {x}) <= Cardinality(S) + 1
<1>1. /\ IsFiniteSet(S \cup {x})
      /\ Cardinality(S \cup {x}) = IF x \in S THEN Cardinality(S) ELSE Cardinality(S) + 1
  BY FS_AddElement
<1>2. Cardinality(S) \in Nat
  BY FS_CardinalityType
<1> QED
  BY <1>1, <1>2

\* What a window refuses, and what it has just accepted, it refuses from then on.
LEMMA RefusedForGood ==
  ASSUME WideUsize, NEW w, Proper(w), NEW c \in U64, Admits(w, c), NEW ts \in U64
  PROVE  /\ SeenAt(admit(w, c), ts) \in Windows /\ SeenAt(admit(w, c), ts).started
         /\ ~Admits(SeenAt(admit(w, c), ts), c)
         /\ \A d \in U64 : ~Admits(w, d) => ~Admits(SeenAt(admit(w, c), ts), d)
<1> DEFINE v == admit(w, c)
           u == SeenAt(v, ts)
<1>1. /\ v \in Windows /\ v.started
      /\ v.highest = IF w.started /\ c <= w.highest THEN w.highest ELSE c
  BY AdmitType
<1>2. u \in Windows /\ u.started /\ u.highest = v.highest /\ u.bits = v.bits
  BY <1>1, SeenAtFields
<1>3. /\ c \in Nat /\ v.highest \in Nat /\ w.highest \in Nat /\ U64 \subseteq Nat
      /\ REPLAY_WINDOW \in Nat
  BY <1>1, WindowAssumption DEF Proper, Windows, U64, REPLAY_WINDOW
<1>4. ASSUME NEW d \in U64
      PROVE  Holds(u, d) <=> v.highest - d \in Offsets /\ (d = c \/ Holds(w, d))
  <2>1. Holds(v, d) <=> v.highest - d \in Offsets /\ (d = c \/ Holds(w, d))
    BY <1>3, AdmitHolds
  <2> HIDE DEF u, v
  <2>2. Holds(u, d) <=> Holds(v, d)
    BY <1>1, <1>2 DEF Holds
  <2> QED
    BY <2>1, <2>2
<1> HIDE DEF u, v
<1>5. ASSUME NEW d \in U64, d = c \/ ~Admits(w, d) PROVE ~Admits(u, d)
  <2>1. Admits(u, d) <=> \/ d > u.highest
                         \/ u.highest - d \in Offsets /\ ~Holds(u, d)
    BY <1>2, AdmitsExactly
  <2>2. CASE d = c
    <3>1. d <= u.highest
      BY <1>1, <1>2, <1>3, <2>2
    <3> QED
      BY <1>2, <1>3, <1>4, <2>1, <2>2, <3>1
  <2>3. CASE ~Admits(w, d)
    <3>1. w.started /\ w \in Windows
      BY <2>3 DEF Proper, Admits
    <3>2. d <= w.highest /\ (w.highest - d \in Offsets => Holds(w, d))
      <4>1. ~(d > w.highest \/ (w.highest - d \in Offsets /\ ~Holds(w, d)))
        BY <2>3, <3>1, AdmitsExactly
      <4> QED
        BY <1>3, <4>1
    <3>3. w.highest <= u.highest
      BY <1>1, <1>2, <1>3, <3>1
    <3>4. d \in Nat /\ u.highest \in Nat
      BY <1>2, <1>3
    <3>5. u.highest - d \in Offsets => w.highest - d \in Offsets
      BY <1>3, <3>2, <3>3, <3>4 DEF Offsets
    <3> QED
      BY <1>2, <1>3, <1>4, <2>1, <3>2, <3>3, <3>4, <3>5
  <2> QED
    BY <1>5, <2>2, <2>3
<1> QED
  BY <1>2, <1>5 DEF u, v
=============================================================================
