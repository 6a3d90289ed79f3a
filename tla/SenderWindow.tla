---------------------------- MODULE SenderWindow ----------------------------
(***************************************************************************)
(* src/src/replay.rs, struct SenderWindow: the sliding window of counters  *)
(* already accepted from one sender, a bitmap of WINDOW_WORDS words in     *)
(* which bit i stands for the counter `highest - i`.                       *)
(*                                                                         *)
(* A word is the set of its bits that are 1, so that the word loop of      *)
(* shift_left is translated word by word with its carries, and so that the *)
(* number and the width of the words are parameters (16 and 64 in the      *)
(* code).                                                                  *)
(***************************************************************************)
EXTENDS Machine

CONSTANTS WINDOW_WORDS,  \* u64 words in the bitmap
          WORD_BITS      \* bits in a word

REPLAY_WINDOW == WINDOW_WORDS * WORD_BITS

ASSUME WindowAssumption ==
  /\ WINDOW_WORDS \in Nat \ {0}
  /\ WORD_BITS \in Nat \ {0}
  /\ REPLAY_WINDOW < USIZE_RANGE

Bits == 0 .. WORD_BITS - 1
Words == 0 .. WINDOW_WORDS - 1

\* u64 << n and u64 >> n: the bits pushed past either end are lost.
Shl(word, n) == {b \in Bits : b - n \in word}
Shr(word, n) == {b \in Bits : b + n \in word}

NoBits == [i \in Words |-> {}]

Windows == [highest : U64, bits : [Words -> SUBSET Bits],
            last_seen_ms : U64, started : BOOLEAN]

\* SenderWindow::new
NewWindow == [highest |-> 0, bits |-> NoBits, last_seen_ms |-> 0, started |-> FALSE]

get_bit(bits, offset) ==
  LET i == as_usize(offset) IN i % WORD_BITS \in bits[i \div WORD_BITS]

\* Faulty: the bit index inside the word is not reduced.
set_bit_unreduced(bits, offset) ==
  LET i == as_usize(offset) IN [bits EXCEPT ![i \div WORD_BITS] = @ \cup {i}]

set_bit(bits, offset) ==
  LET i == as_usize(offset)
  IN  [bits EXCEPT ![i \div WORD_BITS] = @ \cup {i % WORD_BITS}]

\* Faulty: no carry between words.
ShiftedWord_no_carry(bits, word_shift, bit_shift, i) ==
  IF i < word_shift THEN {} ELSE Shl(bits[i - word_shift], bit_shift)

\* One word of the shifted bitmap: the word word_shift below it, plus the
\* carry out of the next lower one.
ShiftedWord(bits, word_shift, bit_shift, i) ==
  IF i < word_shift THEN {}
  ELSE Shl(bits[i - word_shift], bit_shift) \cup
       IF bit_shift > 0 /\ i > word_shift
         THEN Shr(bits[i - word_shift - 1], WORD_BITS - bit_shift)
         ELSE {}

\* Faulty: a jump of the whole window or more leaves the bitmap as it is.
shift_left_keep(bits, diff) ==
  LET shift == as_usize(diff)
  IN  IF shift >= REPLAY_WINDOW
        THEN bits
        ELSE [i \in Words |->
               ShiftedWord(bits, shift \div WORD_BITS, shift % WORD_BITS, i)]

shift_left(bits, diff) ==
  LET shift == as_usize(diff)
  IN  IF shift >= REPLAY_WINDOW
        THEN NoBits
        ELSE [i \in Words |->
               ShiftedWord(bits, shift \div WORD_BITS, shift % WORD_BITS, i)]

\* Faulty: the last offset of the window counts as below it.
Admits_short(w, counter) ==
  \/ ~w.started
  \/ counter > w.highest
  \/ /\ as_usize(w.highest - counter) < REPLAY_WINDOW - 1
     /\ ~get_bit(w.bits, w.highest - counter)

\* The verdict of SenderWindow::admit ...
Admits(w, counter) ==
  \/ ~w.started
  \/ counter > w.highest
  \/ /\ as_usize(w.highest - counter) < REPLAY_WINDOW
     /\ ~get_bit(w.bits, w.highest - counter)

\* Faulty: a counter accepted out of order is not recorded.
admit_forgetful(w, counter) ==
  IF w.started /\ counter <= w.highest THEN w
  ELSE [w EXCEPT !.started = TRUE, !.highest = counter,
                 !.bits = set_bit(IF w.started THEN shift_left(@, counter - w.highest)
                                               ELSE @, 0)]

\* ... and the window it leaves behind when it accepts.
admit(w, counter) ==
  IF ~w.started
    THEN [w EXCEPT !.started = TRUE, !.highest = counter, !.bits = set_bit(@, 0)]
  ELSE IF counter > w.highest
    THEN [w EXCEPT !.bits = set_bit(shift_left(@, counter - w.highest), 0),
                   !.highest = counter]
    ELSE [w EXCEPT !.bits = set_bit(@, w.highest - counter)]
=============================================================================
