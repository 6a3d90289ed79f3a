--------------------------- MODULE MCReplayGuard ---------------------------
(***************************************************************************)
(* Instances of ReplayGuard for TLC.                                       *)
(***************************************************************************)
EXTENDS ReplayGuard

CONSTANTS a, b, c   \* sender keys

Msg(k, n, t) == [key |-> k, counter |-> n, timestamp_ms |-> t]

\* One sender, every counter of a range wider than the window and its shifts.
OneSender == {Msg(a, n, 0) : n \in 0 .. 9}

\* Three senders that share a table of two: timestamps that disagree with the
\* order of the counters, equal ones (ties), and one at the last u64.
ThreeSenders == {Msg(a, 0, 2), Msg(a, 1, 1), Msg(b, 0, 1), Msg(b, 3, 2),
                 Msg(c, 0, 0), Msg(c, 1, 3), Msg(c, 2, 2)}
=============================================================================
