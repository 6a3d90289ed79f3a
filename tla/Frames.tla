------------------------------- MODULE Frames -------------------------------
(***************************************************************************)
(* src/src/envelope.rs: the interaction shapes and the flags byte that     *)
(* carries them, the kinds of stream frame and the stream header.          *)
(***************************************************************************)
EXTENDS Machine

CONSTANT NoStream   \* the `None` of an envelope's optional stream header

\* InteractionShape, in the order of its discriminants.
ShapeOrder == <<"OneShot", "Request", "Response", "StreamFrame">>
Shapes == {ShapeOrder[i] : i \in DOMAIN ShapeOrder}

FLAG_SHAPE_MASK == 3
FLAG_SEALED     == 4

as_bits(shape) == (CHOOSE i \in DOMAIN ShapeOrder : ShapeOrder[i] = shape) - 1

\* `flags & FLAG_SHAPE_MASK` is the remainder by FLAG_SHAPE_MASK + 1; every
\* remainder is a shape, and the other bits are not looked at.
from_flags(flags) == ShapeOrder[(flags % (FLAG_SHAPE_MASK + 1)) + 1]

\* `shape.as_bits() | FLAG_SEALED`: the two sides have no bit in common.
SealedFlags(shape) == as_bits(shape) + FLAG_SEALED
-----------------------------------------------------------------------------
\* StreamFrame: the frame kinds, by their code on the wire.
OPEN      == 0
OPEN_ACK  == 1
DATA      == 2
CREDIT    == 3
CLOSE     == 4
CLOSE_ACK == 5
RESET     == 6

\* StreamFrame::from_u8 knows these codes and no other.
KnownFrames == OPEN .. RESET

Headers == [frame : KnownFrames, seq : U64, window : U32]

ASSUME NoStreamAssumption == NoStream \notin Headers
=============================================================================
