----------------------------- MODULE Transcript -----------------------------
(***************************************************************************)
(* src/src/transcript.rs: the bytes the sender's BLS signature binds.  The *)
(* sealer assembles TranscriptFields from what it is about to seal, the    *)
(* opener from the envelope's header and the opened inner message.         *)
(*                                                                         *)
(* Signatures are ideal: a signature is the key that made it and the bytes *)
(* it is over.  A secret key is any value, its G1 public key the point     *)
(* made from it; BadPoint is a G1 encoding that fails the subgroup check.  *)
(***************************************************************************)
EXTENDS Envelope

BadPoint == [off_subgroup |-> TRUE]

public_key_bytes(sk) == [point_of |-> sk]
g1_subgroup_check(point) == point # BadPoint

\* The stream frame kind and seq: without a stream header, 0 and 0.
FrameAndSeq(stream) ==
  IF stream = NoStream THEN <<0, 0>> ELSE <<stream.frame, stream.seq>>

\* SIG_DOMAIN || transcript.  The payload stands for its SHA-256, and the
\* domain tag, the same in every transcript, is left out.
signing_bytes(env, inner) ==
  <<env.version, env.message_type, env.flags, env.correlation_id,
    env.sender, env.recipient, env.sender_epoch,
    inner.counter, inner.timestamp_ms, inner.expires_at>>
  \o FrameAndSeq(env.stream)
  \o <<env.sealed.kem_enc, inner.compression, inner.uncompressed_len, inner.payload>>

sign(sk, env, inner) == [by |-> public_key_bytes(sk), over |-> signing_bytes(env, inner)]

verify(pub, env, inner) ==
  inner.sender_sig = [by |-> pub, over |-> signing_bytes(env, inner)]
=============================================================================
