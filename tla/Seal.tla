-------------------------------- MODULE Seal --------------------------------
(***************************************************************************)
(* src/src/seal.rs: sealing and opening one message.  The cryptography is  *)
(* symbolic: a Diffie-Hellman term is the set of the two secrets, so it is *)
(* the same from both ends; the derived key is the tuple of what goes into *)
(* the key schedule; a ciphertext is its key, its AAD and its plaintext    *)
(* and opens with exactly that key and AAD.                                *)
(***************************************************************************)
EXTENDS Transcript, Admission

CONSTANT Unsigned   \* an inner message's signature before it is signed

g1_dh(sk, pub) == {sk, pub.point_of}
concat_dh(a, b) == <<a, b>>

auth_encap_secret(esk, sender_sk, recipient_pub) ==
  concat_dh(g1_dh(esk, recipient_pub), g1_dh(sender_sk, recipient_pub))

auth_decap_secret(recipient_sk, sender_pub, kem_enc) ==
  concat_dh(g1_dh(recipient_sk, kem_enc), g1_dh(recipient_sk, sender_pub))

kdf(z, kem_enc, sender_pub, recipient_pub) == <<z, kem_enc, sender_pub, recipient_pub>>

aead_seal(okm, aad, plaintext) == [okm |-> okm, aad |-> aad, plaintext |-> plaintext]

aead_open(okm, aad, ciphertext) ==
  IF ciphertext # Malformed /\ ciphertext.okm = okm /\ ciphertext.aad = aad
    THEN Ok(ciphertext.plaintext)
    ELSE Err("OpenFailed")
-----------------------------------------------------------------------------
\* seal_with_ephemeral.

\* The envelope before its ciphertext is filled in ...
Unfilled(params, esk) ==
  [version |-> ENVELOPE_VERSION, message_type |-> params.message_type,
   flags |-> SealedFlags(params.shape), correlation_id |-> params.correlation_id,
   sender |-> params.sender, recipient |-> params.recipient,
   sender_epoch |-> params.sender_epoch, stream |-> params.stream,
   sealed |-> [kem_enc |-> public_key_bytes(esk), ciphertext |-> Malformed]]

\* ... the inner message before it is signed ...
UnsignedInner(params, compressed) ==
  [message_type |-> params.message_type, correlation_id |-> params.correlation_id,
   compression |-> compressed.compression,
   uncompressed_len |-> compressed.uncompressed_len,
   counter |-> params.counter, timestamp_ms |-> params.timestamp_ms,
   expires_at |-> params.expires_at, payload |-> compressed.bytes,
   sender_sig |-> Unsigned]

Signed(sk, envelope, inner) == [inner EXCEPT !.sender_sig = sign(sk, envelope, inner)]

\* ... and the envelope with the inner message sealed into it.
Filled(params, esk, envelope, inner) ==
  LET okm == kdf(auth_encap_secret(esk, params.sender_sk, params.recipient_pub),
                 envelope.sealed.kem_enc, public_key_bytes(params.sender_sk),
                 params.recipient_pub)
  IN  [envelope EXCEPT !.sealed.ciphertext = aead_seal(okm, header_bytes(envelope), inner)]

seal_with_ephemeral(params, esk) ==
  LET compressed == compress_payload(params.payload)
      envelope == Unfilled(params, esk)
  IN  IF ~compressed.ok THEN compressed
      ELSE IF ~g1_subgroup_check(params.recipient_pub) THEN Err("InvalidPoint")
      ELSE Ok(Filled(params, esk, envelope,
                     Signed(params.sender_sk, envelope,
                            UnsignedInner(params, compressed.value))))
-----------------------------------------------------------------------------
\* open_message.

\* AuthDecap and the AEAD: the inner message, if envelope was sealed to
\* recipient_sk by the holder of sender_pub with this very header.
Decapsulated(recipient_sk, sender_pub, envelope) ==
  LET kem_enc == envelope.sealed.kem_enc
      okm == kdf(auth_decap_secret(recipient_sk, sender_pub, kem_enc),
                 kem_enc, sender_pub, public_key_bytes(recipient_sk))
  IN  aead_open(okm, header_bytes(envelope), envelope.sealed.ciphertext)

\* What authenticates the sender: everything before check_expiry.  `pub` is
\* what resolve_sender_pub returned, a sequence with at most one key.
Authenticated(recipient_sk, envelope, pub) ==
  IF pub = <<>> THEN Err("UnresolvableSender")
  ELSE IF ~g1_subgroup_check(envelope.sealed.kem_enc) \/ ~g1_subgroup_check(pub[1])
    THEN Err("InvalidPoint")
  ELSE LET opened == Decapsulated(recipient_sk, pub[1], envelope)
           inner == opened.value
       IN  IF ~opened.ok THEN opened
           ELSE IF inner = Malformed THEN Err("Codec")
           ELSE IF ~verify(pub[1], envelope, inner) THEN Err("BadSignature")
           ELSE IF \/ inner.message_type # envelope.message_type
                   \/ inner.correlation_id # envelope.correlation_id
             THEN Err("HeaderMismatch")
           ELSE opened

\* Steps (e) and (f): the cap on the declared length, then decompression.
Decompressed(inner) ==
  IF inner.uncompressed_len > MAX_DECOMPRESSED_BYTES
    THEN Err("DecompressionBomb")
    ELSE decompress_payload(inner.compression, inner.payload, inner.uncompressed_len)

OpenedMessage(envelope, inner, payload) ==
  [message_type |-> inner.message_type, correlation_id |-> inner.correlation_id,
   shape |-> from_flags(envelope.flags), sender |-> envelope.sender,
   sender_epoch |-> envelope.sender_epoch, counter |-> inner.counter,
   timestamp_ms |-> inner.timestamp_ms, expires_at |-> inner.expires_at,
   payload |-> payload]

\* The (result, guard) pairs of open_message.
open_message(recipient_sk, envelope, pub, guard, now_ms) ==
  LET auth == Authenticated(recipient_sk, envelope, pub)
      inner == auth.value
      plain == Decompressed(inner)
  IN  IF ~auth.ok THEN {[result |-> auth, guard |-> guard]}
      ELSE {[result |-> IF v.verdict = "Opened"
                          THEN Ok(OpenedMessage(envelope, inner, plain.value))
                          ELSE Err(v.verdict),
             guard |-> v.guard] :
             v \in admit_verified(guard, ReplayKey(envelope.sender, envelope.sender_epoch),
                                  inner, IF plain.ok THEN "Opened" ELSE plain.error,
                                  now_ms)}
=============================================================================
