------------------------------ MODULE Envelope ------------------------------
(***************************************************************************)
(* src/src/envelope.rs, DigMessageEnvelope: the cleartext header and the   *)
(* sealed region, the header bytes that are bound as AAD, and the framing  *)
(* with its size cap.                                                      *)
(*                                                                         *)
(* Serialised fields are a sequence with one element per field; the only   *)
(* field of variable width before the sealed region, the optional stream   *)
(* header, is preceded by its presence tag.                                *)
(***************************************************************************)
EXTENDS Frames, Compression, Sequences

CONSTANTS ENVELOPE_VERSION,     \* the version written, and the newest one read
          MAX_ENVELOPE_BYTES,   \* cap on an encoded envelope
          FIXED_BYTES,          \* everything but the stream header and the payload
          STREAM_BYTES          \* an encoded stream header

ASSUME EnvelopeAssumption ==
  {ENVELOPE_VERSION, MAX_ENVELOPE_BYTES, FIXED_BYTES, STREAM_BYTES} \subseteq Nat

\* Bytes that do not decode to what is expected: no other record has this field.
Malformed == [malformed |-> TRUE]

\* Option<StreamHeader>::stream
OptionBytes(stream) ==
  IF stream = NoStream THEN <<0>> ELSE <<1, stream.frame, stream.seq, stream.window>>

\* Faulty: the stream header is not bound.
header_bytes_no_stream(env) ==
  <<env.version, env.message_type, env.flags, env.correlation_id,
    env.sender, env.recipient, env.sender_epoch>>

header_bytes(env) ==
  <<env.version, env.message_type, env.flags, env.correlation_id,
    env.sender, env.recipient, env.sender_epoch>> \o OptionBytes(env.stream)

\* The length of an envelope's Streamable encoding; AEAD adds a tag of fixed
\* length to the inner message, whose only variable part is the payload.
EncodedLen(env) ==
  FIXED_BYTES
    + (IF env.stream = NoStream THEN 0 ELSE STREAM_BYTES)
    + (IF env.sealed.ciphertext.plaintext = Malformed
         THEN 0 ELSE ByteLen(env.sealed.ciphertext.plaintext.payload))

\* Faulty: the sender does not look at the cap.
encode_envelope_uncapped(env) == Ok([len |-> EncodedLen(env), envelope |-> env])

\* What travels: so many bytes, and the envelope they decode to.
encode_envelope(env) ==
  IF EncodedLen(env) > MAX_ENVELOPE_BYTES
    THEN Err("EnvelopeTooLarge")
    ELSE Ok([len |-> EncodedLen(env), envelope |-> env])

decode_envelope(bytes) ==
  IF bytes.len > MAX_ENVELOPE_BYTES THEN Err("EnvelopeTooLarge")
  ELSE IF bytes.envelope = Malformed THEN Err("Truncated")
  ELSE IF bytes.envelope.version > ENVELOPE_VERSION THEN Err("UnsupportedVersion")
  ELSE Ok(bytes.envelope)
=============================================================================
