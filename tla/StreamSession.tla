--------------------------- MODULE StreamSession ---------------------------
(***************************************************************************)
(* src/src/stream.rs, struct StreamSession: the per-stream state machine,  *)
(* as operators on a session record.  Each method that can fail before it  *)
(* changes anything is a pair: the condition under which it returns Ok and *)
(* the session it leaves behind.  The headers the build_* methods return   *)
(* are built with `header` by the endpoint.                                *)
(***************************************************************************)
EXTENDS Frames

header(frame, seq, window) == [frame |-> frame, seq |-> seq, window |-> window]

Sessions ==
  [role : {"Initiator", "Responder"},
   handshake : {"Opening", "Established"},
   send_seq : U64, recv_seq : U64,
   send_credit : U64, recv_window_remaining : U64,
   local_closed : BOOLEAN, remote_closed : BOOLEAN, reset : BOOLEAN]

NewSession(role, credit, window) ==
  [role |-> role, handshake |-> "Opening", send_seq |-> 0, recv_seq |-> 0,
   send_credit |-> credit, recv_window_remaining |-> window,
   local_closed |-> FALSE, remote_closed |-> FALSE, reset |-> FALSE]

initiator(recv_window) == NewSession("Initiator", 0, recv_window)
responder(granted_credit) == NewSession("Responder", granted_credit, 0)

is_closed(s) == s.reset \/ (s.local_closed /\ s.remote_closed)

Established(s) == s.handshake = "Established"
-----------------------------------------------------------------------------
\* The sending half.

CanOpenAck(s) == s.role = "Responder" /\ ~Established(s)
build_open_ack(s, recv_window) ==
  [s EXCEPT !.handshake = "Established", !.recv_window_remaining = recv_window]

\* Faulty: the credit, or the CLOSE already sent, is not looked at.
CanSendData_no_credit(s) == Established(s) /\ ~s.local_closed
CanSendData_after_close(s) == Established(s) /\ s.send_credit > 0

CanSendData(s) == Established(s) /\ ~s.local_closed /\ s.send_credit > 0
build_data(s) == [s EXCEPT !.send_credit = @ - 1, !.send_seq = @ + 1]

CanGrantCredit(s) == Established(s)
\* Faulty: the grant is announced but not recorded.
build_credit_unrecorded(s, n) == s
build_credit(s, n) ==
  [s EXCEPT !.recv_window_remaining = saturating_add(@, n)]

\* build_close does not look at the handshake.
CanClose(s) == ~s.local_closed
build_close(s) == [s EXCEPT !.local_closed = TRUE]

build_reset(s) == [s EXCEPT !.reset = TRUE]
-----------------------------------------------------------------------------
\* Faulty: any seq is taken for the next one.
NextInOrder_any(s, hdr) == TRUE

NextInOrder(s, hdr) == hdr.seq = s.recv_seq

\* The receiving half: on_recv returns Ok exactly when ...
Legal(s, hdr) ==
  /\ ~s.reset
  /\ CASE hdr.frame = OPEN      -> FALSE
       [] hdr.frame = OPEN_ACK  -> s.role = "Initiator" /\ ~Established(s)
       [] hdr.frame = DATA      -> /\ Established(s) /\ ~s.remote_closed
                                   /\ NextInOrder(s, hdr)
                                   /\ s.recv_window_remaining > 0
       [] hdr.frame = CREDIT    -> Established(s)
       [] hdr.frame = CLOSE     -> Established(s) /\ ~s.remote_closed
       [] hdr.frame = CLOSE_ACK -> s.local_closed
       [] hdr.frame = RESET     -> TRUE

\* ... and then leaves this session.
on_recv(s, hdr) ==
  CASE hdr.frame = OPEN_ACK  -> [s EXCEPT !.handshake = "Established",
                                          !.send_credit = hdr.window]
    [] hdr.frame = DATA      -> [s EXCEPT !.recv_window_remaining = @ - 1,
                                          !.recv_seq = @ + 1]
    [] hdr.frame = CREDIT    -> [s EXCEPT !.send_credit = saturating_add(@, hdr.window)]
    [] hdr.frame = CLOSE     -> [s EXCEPT !.remote_closed = TRUE]
    [] hdr.frame = CLOSE_ACK -> s
    [] hdr.frame = RESET     -> [s EXCEPT !.reset = TRUE]
=============================================================================
