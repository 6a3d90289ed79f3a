--------------------------- MODULE StreamEndpoint ---------------------------
(***************************************************************************)
(* src/src/stream.rs, struct StreamEndpoint: the streams one endpoint has  *)
(* with one peer, as operators on an endpoint record, with open_message    *)
(* (src/src/seal.rs) reduced to the order of its verdicts.  The state      *)
(* machines that own endpoints apply these operators to their state.       *)
(*                                                                         *)
(* An envelope is a record of its fields; `authentic` says whether every   *)
(* cryptographic check of open_message passes on it (shape bits, resolved  *)
(* sender key, subgroup, AEAD with the header as AAD, inner codec, BLS     *)
(* signature, header match), which no key-less party can bring about.      *)
(*                                                                         *)
(* Sealing can fail (entropy source, over-sized payload, bad peer key),    *)
(* and it does so after the state was changed: the operators that seal     *)
(* take the outcome, `sealed`, as a parameter and return the new endpoint  *)
(* with the frames handed to the caller to send.                           *)
(***************************************************************************)
EXTENDS StreamSession, Admission, Sequences

CONSTANT BadPayload   \* a payload that does not decompress within bounds

\* StreamEndpoint::new: the counter starts at 0 and the guard empty, every time.
NewEndpoint(local_did, local_epoch, peer_did, max_concurrent) ==
  [local_did |-> local_did, local_epoch |-> local_epoch, peer_did |-> peer_did,
   send_counter |-> 0, sessions |-> EmptyMap, max_concurrent |-> max_concurrent,
   guard |-> EmptyMap]

Live(ep) == DOMAIN ep.sessions
Full(ep) == Cardinality(Live(ep)) >= ep.max_concurrent
-----------------------------------------------------------------------------
\* Sending.

\* The envelope seal_frame makes; the counter is consumed whether or not
\* sealing succeeds.
Sealed(ep, cid, hdr, payload, now_ms, expires_at) ==
  [authentic |-> TRUE, sender |-> ep.local_did, sender_epoch |-> ep.local_epoch,
   shape |-> "StreamFrame", correlation_id |-> cid, stream |-> hdr,
   counter |-> ep.send_counter, timestamp_ms |-> now_ms,
   expires_at |-> expires_at, payload |-> payload]

\* Faulty: the counter is not consumed.
seal_frame_same_counter(ep, cid, hdr, payload, now_ms, expires_at, sealed) ==
  [ep |-> ep,
   sent |-> IF sealed
              THEN <<Sealed(ep, cid, hdr, payload, now_ms, expires_at)>>
              ELSE <<>>]

seal_frame(ep, cid, hdr, payload, now_ms, expires_at, sealed) ==
  [ep |-> [ep EXCEPT !.send_counter = @ + 1],
   sent |-> IF sealed
              THEN <<Sealed(ep, cid, hdr, payload, now_ms, expires_at)>>
              ELSE <<>>]

WithSession(ep, cid, s) == [ep EXCEPT !.sessions = Insert(@, cid, s)]
WithoutSession(ep, cid) == [ep EXCEPT !.sessions = Remove(@, cid)]

drop_if_closed(ep, cid) ==
  IF cid \in Live(ep) /\ is_closed(ep.sessions[cid])
    THEN WithoutSession(ep, cid)
    ELSE ep

CanOpen(ep, cid) == cid \notin Live(ep) /\ ~Full(ep)

open(ep, cid, recv_window, now_ms, expires_at, sealed) ==
  seal_frame(WithSession(ep, cid, initiator(recv_window)), cid,
             header(OPEN, 0, recv_window), 0, now_ms, expires_at, sealed)

open_ack(ep, cid, recv_window, now_ms, expires_at, sealed) ==
  seal_frame(WithSession(ep, cid, build_open_ack(ep.sessions[cid], recv_window)), cid,
             header(OPEN_ACK, 0, recv_window), 0, now_ms, expires_at, sealed)

send_data(ep, cid, payload, now_ms, expires_at, sealed) ==
  seal_frame(WithSession(ep, cid, build_data(ep.sessions[cid])), cid,
             header(DATA, ep.sessions[cid].send_seq, 0), payload,
             now_ms, expires_at, sealed)

grant_credit(ep, cid, n, now_ms, expires_at, sealed) ==
  seal_frame(WithSession(ep, cid, build_credit(ep.sessions[cid], n)), cid,
             header(CREDIT, 0, n), 0, now_ms, expires_at, sealed)

\* Faulty: the session is kept although both directions are closed.
close_keep(ep, cid, now_ms, expires_at, sealed) ==
  seal_frame(WithSession(ep, cid, build_close(ep.sessions[cid])), cid,
             header(CLOSE, 0, 0), 0, now_ms, expires_at, sealed)

\* A failed seal returns before the closed session is dropped.
close(ep, cid, now_ms, expires_at, sealed) ==
  LET r == seal_frame(WithSession(ep, cid, build_close(ep.sessions[cid])), cid,
                      header(CLOSE, 0, 0), 0, now_ms, expires_at, sealed)
  IN  IF sealed THEN [r EXCEPT !.ep = drop_if_closed(@, cid)] ELSE r

\* Faulty: the session is kept although the RESET was sealed.
reset_keep(ep, cid, now_ms, expires_at, sealed) ==
  seal_frame(WithSession(ep, cid, build_reset(ep.sessions[cid])), cid,
             header(RESET, 0, 0), 0, now_ms, expires_at, sealed)

\* A failed seal returns before the session is removed.
reset(ep, cid, now_ms, expires_at, sealed) ==
  LET r == seal_frame(WithSession(ep, cid, build_reset(ep.sessions[cid])), cid,
                      header(RESET, 0, 0), 0, now_ms, expires_at, sealed)
  IN  IF sealed THEN [r EXCEPT !.ep = WithoutSession(@, cid)] ELSE r
-----------------------------------------------------------------------------
\* Receiving.

\* The (verdict, guard) pairs of open_message.
open_message(guard, env, now_ms) ==
  IF ~env.authentic THEN {Verdict("Unauthentic", guard)}
  ELSE admit_verified(guard, ReplayKey(env.sender, env.sender_epoch), env,
                      IF env.payload = BadPayload THEN "Decompression" ELSE "Opened",
                      now_ms)

\* StreamAccept, with the caller's new endpoint and the RESET to send, if any.
Outcome(kind, why, ep, sent) == [kind |-> kind, why |-> why, ep |-> ep, sent |-> sent]
Event(ep, event) == Outcome("Event", event, ep, <<>>)
Dropped(ep, cause) == Outcome("Dropped", cause, ep, <<>>)

\* A RESET that cannot be sealed makes accept return Err, the session gone.
reset_response(ep, cid, now_ms, cause, sealed) ==
  LET r == seal_frame(ep, cid, header(RESET, 0, 0), 0, now_ms, 0, sealed)
  IN  Outcome(IF sealed THEN "Reset" ELSE "Err", cause, r.ep, r.sent)

to_event(frame) ==
  CASE frame = OPEN_ACK  -> "Established"
    [] frame = DATA      -> "Data"
    [] frame = CREDIT    -> "CreditGranted"
    [] frame = CLOSE     -> "RemoteClosed"
    [] frame = CLOSE_ACK -> "CloseAcked"

\* Faulty: the cap is not looked at.
accept_open_no_cap(ep, cid, hdr, now_ms, sealed) ==
  Event(WithSession(ep, cid, responder(hdr.window)), "Opened")

\* Faulty: an OPEN beyond the cap is dropped without an answer.
accept_open_silent(ep, cid, hdr, now_ms, sealed) ==
  IF cid \in Live(ep)
    THEN reset_response(WithoutSession(ep, cid), cid, now_ms, "DuplicateOpen", sealed)
  ELSE IF Full(ep) THEN Dropped(ep, "StreamLimit")
  ELSE Event(WithSession(ep, cid, responder(hdr.window)), "Opened")

accept_open(ep, cid, hdr, now_ms, sealed) ==
  IF cid \in Live(ep)
    THEN reset_response(WithoutSession(ep, cid), cid, now_ms, "DuplicateOpen", sealed)
  ELSE IF Full(ep)
    THEN reset_response(ep, cid, now_ms, "StreamLimit", sealed)
    ELSE Event(WithSession(ep, cid, responder(hdr.window)), "Opened")

\* Faulty: the session is kept when the peer's CLOSE completes it.
Transition_keep(ep, cid, hdr, now_ms, sealed) ==
  IF Legal(ep.sessions[cid], hdr)
    THEN Event(WithSession(ep, cid, on_recv(ep.sessions[cid], hdr)), to_event(hdr.frame))
    ELSE reset_response(WithoutSession(ep, cid), cid, now_ms, "StreamProtocol", sealed)

\* A frame for a live session: apply it, or tear the session down and RESET.
Transition(ep, cid, hdr, now_ms, sealed) ==
  IF Legal(ep.sessions[cid], hdr)
    THEN Event(drop_if_closed(WithSession(ep, cid, on_recv(ep.sessions[cid], hdr)), cid),
               to_event(hdr.frame))
    ELSE reset_response(WithoutSession(ep, cid), cid, now_ms, "StreamProtocol", sealed)

\* Why accept ignores a verified envelope, if it does.
Refusal(ep, env) ==
  IF env.sender # ep.peer_did THEN "NotThePeer"
  ELSE IF env.stream = NoStream THEN "NoStreamHeader"
  ELSE IF env.stream.frame \notin KnownFrames THEN "UnknownFrame"
  ELSE IF env.shape # "StreamFrame" THEN "NonStreamShape"
  ELSE IF /\ env.stream.frame # OPEN
          /\ env.correlation_id \notin Live(ep) THEN "UnknownStream"
  ELSE "None"

\* accept, once the envelope is opened and verified.
AcceptOpened(ep, env, now_ms, sealed) ==
  LET cid == env.correlation_id
      hdr == env.stream
      refusal == Refusal(ep, env)
  IN  IF refusal # "None" THEN Dropped(ep, refusal)
      ELSE CASE hdr.frame = RESET -> Event(WithoutSession(ep, cid), "PeerReset")
             [] hdr.frame = OPEN  -> accept_open(ep, cid, hdr, now_ms, sealed)
             [] OTHER             -> Transition(ep, cid, hdr, now_ms, sealed)

\* The outcomes of accept.
accept(ep, env, now_ms, sealed) ==
  {LET after == [ep EXCEPT !.guard = o.guard]
   IN  IF o.verdict = "Opened"
         THEN AcceptOpened(after, env, now_ms, sealed)
         ELSE Dropped(after, o.verdict) : o \in open_message(ep.guard, env, now_ms)}
=============================================================================
