--------------------------- MODULE MCStreamPair ---------------------------
(***************************************************************************)
(* Instances of StreamPair for TLC.                                        *)
(***************************************************************************)
EXTENDS StreamPair

CONSTANTS c1, c2   \* correlation ids

\* A opens one stream; each end opens one; A opens two.
OneStream == [e \in Ends |-> IF e = A THEN {c1} ELSE {}]
OneEach   == [e \in Ends |-> IF e = A THEN {c1} ELSE {c2}]
TwoStreams == [e \in Ends |-> IF e = A THEN {c1, c2} ELSE {}]

RoomForOne == [e \in Ends |-> 1]
RoomForTwo == [e \in Ends |-> 2]

\* How many frames each end is asked to seal.
ThreeEach == [e \in Ends |-> 3]
FiveEach  == [e \in Ends |-> 5]
OneBack   == [e \in Ends |-> IF e = A THEN 4 ELSE 1]
=============================================================================
