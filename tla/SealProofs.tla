----------------------------- MODULE SealProofs -----------------------------
(***************************************************************************)
(* Lemmas about sealing and opening one message, for every message, key    *)
(* and envelope: what compression gives back, what the header bytes and    *)
(* the transcript tell apart, and what has to hold for an envelope to pass *)
(* the cryptographic checks of open_message.                               *)
(***************************************************************************)
EXTENDS Seal, ReplayTableProofs

(***************************************************************************)
(* Compression.                                                            *)
(***************************************************************************)

\* decompress_payload gives back what compress_payload was given, within the cap.
LEMMA RoundTrip ==
  ASSUME NEW p \in Payloads, PayloadLen[p] <= MAX_DECOMPRESSED_BYTES
  PROVE  LET c == compress_payload(p)
         IN  /\ c.ok
             /\ c.value.uncompressed_len = PayloadLen[p]
             /\ decompress_payload(c.value.compression, c.value.bytes, c.value.uncompressed_len)
                  = Ok(Text(p))
<1> DEFINE c == compress_payload(p)
<1>1. PayloadLen[p] \in Nat /\ MAX_DECOMPRESSED_BYTES \in Nat /\ PayloadLen[p] <= U32_MAX
      /\ ~(PayloadLen[p] > MAX_DECOMPRESSED_BYTES)
  BY CompressionAssumption, MachineAssumption DEF U32, U64
<1>2. \/ c = Ok(Compressed(COMPRESSION_NONE, Text(p), PayloadLen[p]))
      \/ c = Ok(Compressed(COMPRESSION_ZSTD, Frame(p), PayloadLen[p]))
  BY <1>1, CompressionAssumption, MachineAssumption DEF compress_payload, U32, U64
<1>3. CASE c = Ok(Compressed(COMPRESSION_NONE, Text(p), PayloadLen[p]))
  <2>1. /\ c.ok /\ c.value.uncompressed_len = PayloadLen[p]
        /\ c.value.bytes = Text(p) /\ c.value.compression = COMPRESSION_NONE
    BY <1>3 DEF Ok, Compressed
  <2>2. decompress_payload(COMPRESSION_NONE, Text(p), PayloadLen[p]) = Ok(Text(p))
    BY <1>1 DEF decompress_payload, LengthChecked, ByteLen, Ok, Text
  <2> QED
    BY <2>1, <2>2
<1>4. CASE c = Ok(Compressed(COMPRESSION_ZSTD, Frame(p), PayloadLen[p]))
  <2>1. /\ c.ok /\ c.value.uncompressed_len = PayloadLen[p]
        /\ c.value.bytes = Frame(p) /\ c.value.compression = COMPRESSION_ZSTD
    BY <1>4 DEF Ok, Compressed
  <2>2. zstd_decompress(Frame(p), PayloadLen[p]) = Ok(Text(p))
    BY <1>1 DEF zstd_decompress, Frame
  <2>3. ByteLen(Text(p)) = PayloadLen[p]
    BY DEF ByteLen, Text
  <2>4. LengthChecked(Ok(Text(p)), PayloadLen[p]) = Ok(Text(p))
    BY <2>3 DEF LengthChecked, Ok
  <2>5. decompress_payload(COMPRESSION_ZSTD, Frame(p), PayloadLen[p]) = Ok(Text(p))
    BY <1>1, <2>2, <2>4 DEF decompress_payload, COMPRESSION_ZSTD, COMPRESSION_NONE
  <2> QED
    BY <2>1, <2>5
<1> QED
  BY <1>2, <1>3, <1>4

\* What compress_payload returns is a byte string with a length that fits a u32.
LEMMA CompressType ==
  ASSUME NEW p \in Payloads, compress_payload(p).ok
  PROVE  /\ compress_payload(p).value.bytes \in Bytes
         /\ compress_payload(p).value.uncompressed_len \in U32
<1>1. PayloadLen[p] \in Nat /\ U32_MAX \in Nat
  BY CompressionAssumption, MachineAssumption DEF U32, U64
<1>2. ~(PayloadLen[p] > U32_MAX)
  BY DEF compress_payload, Err
<1>3. \/ compress_payload(p) = Ok(Compressed(COMPRESSION_NONE, Text(p), PayloadLen[p]))
      \/ compress_payload(p) = Ok(Compressed(COMPRESSION_ZSTD, Frame(p), PayloadLen[p]))
  BY <1>2 DEF compress_payload
<1>4. Text(p) \in Bytes /\ Frame(p) \in Bytes /\ PayloadLen[p] \in U32
  BY <1>1, <1>2 DEF Text, Frame, Bytes, U32
<1> QED
  BY <1>3, <1>4 DEF Ok, Compressed

\* What is decompressed has the length that was declared, and that is within the
\* cap: whatever codec, payload and length an authenticated sender claims.
LEMMA DecompressedLength ==
  ASSUME NEW inner, inner.payload \in Bytes, inner.uncompressed_len \in U32,
         Decompressed(inner).ok
  PROVE  /\ ByteLen(Decompressed(inner).value) = inner.uncompressed_len
         /\ inner.uncompressed_len <= MAX_DECOMPRESSED_BYTES
<1> DEFINE n == inner.uncompressed_len
           d == Decompressed(inner)
<1>1. n \in Nat /\ MAX_DECOMPRESSED_BYTES \in Nat
  BY CompressionAssumption, MachineAssumption DEF U32, U64
<1>2. ~(n > MAX_DECOMPRESSED_BYTES)
  BY DEF Decompressed, Err
<1>3. n <= MAX_DECOMPRESSED_BYTES
  BY <1>1, <1>2
<1>4. d = decompress_payload(inner.compression, inner.payload, n)
  BY <1>2 DEF Decompressed
<1>5. PICK x : d = LengthChecked(x, n)
  BY <1>2, <1>4 DEF decompress_payload, Err
<1>6. d = x /\ ByteLen(x.value) = n
  BY <1>5 DEF LengthChecked, Err
<1> QED
  BY <1>3, <1>6

(***************************************************************************)
(* The header and the transcript.                                          *)
(***************************************************************************)

\* The shape bits survive the flags byte.
LEMMA FlagsRoundTrip ==
  ASSUME NEW shape \in Shapes
  PROVE  from_flags(SealedFlags(shape)) = shape /\ SealedFlags(shape) \in 4 .. 7
<1>1. PICK i \in 1 .. 4 : ShapeOrder[i] = shape
  BY DEF Shapes, ShapeOrder
<1>2. \A j \in DOMAIN ShapeOrder : ShapeOrder[j] = shape => j = i
  BY <1>1 DEF ShapeOrder
<1>3. DOMAIN ShapeOrder = 1 .. 4
  BY DEF ShapeOrder
<1>4. (CHOOSE j \in DOMAIN ShapeOrder : ShapeOrder[j] = shape) = i
  BY <1>1, <1>2, <1>3
<1>5. SealedFlags(shape) = i - 1 + 4
  BY <1>4 DEF SealedFlags, as_bits, FLAG_SEALED
<1>6. (i - 1 + 4) % 4 = i - 1
  BY <1>1
<1>7. from_flags(SealedFlags(shape)) = ShapeOrder[i]
  BY <1>5, <1>6 DEF from_flags, FLAG_SHAPE_MASK
<1> QED
  BY <1>1, <1>5, <1>7

\* An optional stream header as the relay may present it.
StreamOptions == {NoStream} \cup [frame : Nat, seq : Nat, window : Nat]

\* The optional stream header can be read back from its bytes.
LEMMA OptionInjective ==
  ASSUME NEW s \in StreamOptions, NEW t \in StreamOptions, OptionBytes(s) = OptionBytes(t)
  PROVE  s = t
<1>1. CASE s = NoStream \/ t = NoStream
  <2>1. ASSUME NEW u, u # NoStream PROVE OptionBytes(u) # OptionBytes(NoStream)
    BY <2>1 DEF OptionBytes
  <2> QED
    BY <1>1, <2>1
<1>2. CASE s # NoStream /\ t # NoStream
  <2>1. s \in [frame : Nat, seq : Nat, window : Nat] /\ t \in [frame : Nat, seq : Nat, window : Nat]
    BY <1>2 DEF StreamOptions
  <2>2. s.frame = t.frame /\ s.seq = t.seq /\ s.window = t.window
    BY <1>2 DEF OptionBytes
  <2> QED
    BY <2>1, <2>2
<1> QED
  BY <1>1, <1>2

SameHeader(a, b) ==
  /\ a.version = b.version /\ a.message_type = b.message_type /\ a.flags = b.flags
  /\ a.correlation_id = b.correlation_id /\ a.sender = b.sender
  /\ a.recipient = b.recipient /\ a.sender_epoch = b.sender_epoch
  /\ OptionBytes(a.stream) = OptionBytes(b.stream)

\* header_bytes binds every field of the cleartext header.
LEMMA HeaderInjective ==
  ASSUME NEW a, NEW b, header_bytes(a) = header_bytes(b)
  PROVE  SameHeader(a, b)
<1>1. /\ a.version = b.version /\ a.message_type = b.message_type /\ a.flags = b.flags
      /\ a.correlation_id = b.correlation_id /\ a.sender = b.sender
      /\ a.recipient = b.recipient /\ a.sender_epoch = b.sender_epoch
  BY DEF header_bytes, OptionBytes
<1>2. CASE a.stream = NoStream /\ b.stream = NoStream
  BY <1>1, <1>2 DEF SameHeader
<1>3. CASE a.stream # NoStream /\ b.stream # NoStream
  <2>1. a.stream.frame = b.stream.frame /\ a.stream.seq = b.stream.seq
        /\ a.stream.window = b.stream.window
    BY <1>3 DEF header_bytes, OptionBytes
  <2> QED
    BY <1>1, <1>3, <2>1 DEF SameHeader, OptionBytes
<1>4. CASE ~(a.stream = NoStream <=> b.stream = NoStream)
  BY <1>4 DEF header_bytes, OptionBytes
<1> QED
  BY <1>2, <1>3, <1>4

(***************************************************************************)
(* Opening.                                                                *)
(***************************************************************************)

\* The sender's and the recipient's Diffie-Hellman terms agree.
LEMMA SharedSecret ==
  ASSUME NEW esk, NEW ssk, NEW rsk
  PROVE  auth_decap_secret(rsk, public_key_bytes(ssk), public_key_bytes(esk))
           = auth_encap_secret(esk, ssk, public_key_bytes(rsk))
  BY DEF auth_decap_secret, auth_encap_secret, concat_dh, g1_dh, public_key_bytes

\* The key the recipient derives for an envelope from a sender's public key.
OpeningKey(rsk, pub, env) ==
  kdf(auth_decap_secret(rsk, pub, env.sealed.kem_enc), env.sealed.kem_enc, pub,
      public_key_bytes(rsk))

\* What is sealed in an envelope.
InnerOf(env) == env.sealed.ciphertext.plaintext

\* All that the cryptographic checks of open_message ask for.
Genuine(rsk, env, pub) ==
  /\ pub # <<>> /\ g1_subgroup_check(env.sealed.kem_enc) /\ g1_subgroup_check(pub[1])
  /\ env.sealed.ciphertext # Malformed
  /\ env.sealed.ciphertext.okm = OpeningKey(rsk, pub[1], env)
  /\ env.sealed.ciphertext.aad = header_bytes(env)
  /\ InnerOf(env) # Malformed
  /\ verify(pub[1], env, InnerOf(env))
  /\ InnerOf(env).message_type = env.message_type
  /\ InnerOf(env).correlation_id = env.correlation_id

\* open_message authenticates an envelope exactly if all of that holds, and what it
\* goes on with is what was sealed.
LEMMA AuthenticatedOk ==
  ASSUME NEW rsk, NEW env, NEW pub
  PROVE  IF Genuine(rsk, env, pub) THEN Authenticated(rsk, env, pub) = Ok(InnerOf(env))
                                   ELSE Authenticated(rsk, env, pub).ok = FALSE
<1> DEFINE c == env.sealed.ciphertext
           opened == Decapsulated(rsk, pub[1], env)
<1>1. opened = IF /\ c # Malformed /\ c.okm = OpeningKey(rsk, pub[1], env)
                  /\ c.aad = header_bytes(env)
                 THEN Ok(c.plaintext) ELSE Err("OpenFailed")
  BY DEF Decapsulated, aead_open, OpeningKey
<1>2. CASE pub = <<>> \/ ~g1_subgroup_check(env.sealed.kem_enc) \/ ~g1_subgroup_check(pub[1])
  BY <1>2 DEF Authenticated, Genuine, Err
<1>3. CASE pub # <<>> /\ g1_subgroup_check(env.sealed.kem_enc) /\ g1_subgroup_check(pub[1])
  <2>1. CASE opened = Err("OpenFailed")
    <3>1. Authenticated(rsk, env, pub) = opened /\ ~opened.ok
      BY <1>3, <2>1 DEF Authenticated, Err
    <3>2. ~Genuine(rsk, env, pub)
      BY <1>1, <2>1 DEF Genuine, Ok, Err
    <3> QED
      BY <2>1, <3>1, <3>2 DEF Err
  <2>2. CASE /\ c # Malformed /\ c.okm = OpeningKey(rsk, pub[1], env)
             /\ c.aad = header_bytes(env)
    <3>1. opened = Ok(InnerOf(env)) /\ opened.ok /\ opened.value = InnerOf(env)
      BY <1>1, <2>2 DEF Ok, InnerOf
    <3>2. Authenticated(rsk, env, pub) =
            IF InnerOf(env) = Malformed THEN Err("Codec")
            ELSE IF ~verify(pub[1], env, InnerOf(env)) THEN Err("BadSignature")
            ELSE IF \/ InnerOf(env).message_type # env.message_type
                    \/ InnerOf(env).correlation_id # env.correlation_id
              THEN Err("HeaderMismatch")
            ELSE opened
      BY <1>3, <3>1 DEF Authenticated
    <3> HIDE DEF opened
    <3> QED
      BY <1>3, <2>2, <3>1, <3>2 DEF Genuine, Err
  <2> QED
    BY <1>1, <2>1, <2>2
<1> QED
  BY <1>2, <1>3

\* An error of the decompression is told apart from success.
LEMMA DecompressionFails ==
  ASSUME NEW inner
  PROVE  /\ Decompressed(inner).ok \in BOOLEAN
         /\ ~Decompressed(inner).ok => Decompressed(inner).error # "Opened"
<1> DEFINE Fine(x) == x.ok \in BOOLEAN /\ (~x.ok => x.error # "Opened")
<1>1. ASSUME NEW v PROVE Fine(Ok(v))
  BY DEF Ok
<1>2. /\ Fine(Err("DecompressionBomb")) /\ Fine(Err("UnsupportedCompression"))
      /\ Fine(Err("DecompressedLengthMismatch")) /\ Fine(Err("Codec"))
  BY DEF Err
<1> HIDE DEF Fine
<1>3. ASSUME NEW x, NEW n, Fine(x) PROVE Fine(LengthChecked(x, n))
  BY <1>2, <1>3 DEF LengthChecked
<1>4. ASSUME NEW d, NEW n PROVE Fine(zstd_decompress(d, n))
  BY <1>1, <1>2 DEF zstd_decompress
<1>5. ASSUME NEW k, NEW d, NEW n PROVE Fine(decompress_payload(k, d, n))
  BY <1>1, <1>2, <1>3, <1>4 DEF decompress_payload
<1>6. Fine(Decompressed(inner))
  BY <1>2, <1>5 DEF Decompressed
<1> QED
  BY <1>6 DEF Fine

KeyOf(env) == ReplayKey(env.sender, env.sender_epoch)

\* open_message stops before the guard is advanced.
Turned(rsk, env, pub, guard, now_ms, r) ==
  /\ r.result.ok = FALSE /\ r.guard = guard
  /\ \/ ~Genuine(rsk, env, pub)
     \/ TtlTooLong(InnerOf(env)) \/ Expired(InnerOf(env), now_ms)
     \/ ~Passes(guard, KeyOf(env), InnerOf(env).counter, InnerOf(env).timestamp_ms, now_ms)

\* open_message advances the guard, evicting E, and then decompresses.
LetIn(rsk, env, pub, guard, now_ms, E, r) ==
  /\ Genuine(rsk, env, pub)
  /\ ~TtlTooLong(InnerOf(env)) /\ ~Expired(InnerOf(env), now_ms)
  /\ Passes(guard, KeyOf(env), InnerOf(env).counter, InnerOf(env).timestamp_ms, now_ms)
  /\ RecordedAs(guard, E, KeyOf(env), InnerOf(env).counter, InnerOf(env).timestamp_ms, r.guard)
  /\ r.result.ok = Decompressed(InnerOf(env)).ok
  /\ r.result.ok => r.result.value
                      = OpenedMessage(env, InnerOf(env), Decompressed(InnerOf(env)).value)

\* open_message does one or the other.
LEMMA OpenShape ==
  ASSUME NEW rsk, NEW env, NEW pub, NEW guard, NEW now_ms,
         NEW r \in open_message(rsk, env, pub, guard, now_ms)
  PROVE  \/ Turned(rsk, env, pub, guard, now_ms, r)
         \/ \E E \in SUBSET DOMAIN guard : LetIn(rsk, env, pub, guard, now_ms, E, r)
<1> DEFINE inner == InnerOf(env)
           plain == Decompressed(inner)
           key == KeyOf(env)
<1>1. CASE ~Genuine(rsk, env, pub)
  <2>1. Authenticated(rsk, env, pub).ok = FALSE
    BY <1>1, AuthenticatedOk
  <2>2. r = [result |-> Authenticated(rsk, env, pub), guard |-> guard]
    BY <2>1 DEF open_message
  <2> QED
    BY <1>1, <2>1, <2>2 DEF Turned
<1>2. CASE Genuine(rsk, env, pub)
  <2>1. Authenticated(rsk, env, pub) = Ok(inner)
    BY <1>2, AuthenticatedOk
  <2>2. Authenticated(rsk, env, pub).ok /\ Authenticated(rsk, env, pub).value = inner
    BY <2>1 DEF Ok
  <2> DEFINE told == IF plain.ok THEN "Opened" ELSE plain.error
             answer(v) == IF v.verdict = "Opened" THEN Ok(OpenedMessage(env, inner, plain.value))
                                                  ELSE Err(v.verdict)
  <2>3. PICK v \in admit_verified(guard, key, inner, told, now_ms) :
          r = [result |-> answer(v), guard |-> v.guard]
    BY <2>2 DEF open_message, KeyOf
  <2>4. r.result = answer(v) /\ r.guard = v.guard
    BY <2>3
  <2>5. v.verdict # "Opened" => r.result.ok = FALSE
    BY <2>4 DEF Err
  <2>6. CASE TtlTooLong(inner) \/ Expired(inner, now_ms)
    <3>1. v.verdict # "Opened" /\ v.guard = guard
      BY <2>3, <2>6 DEF admit_verified, Verdict
    <3> QED
      BY <2>4, <2>5, <2>6, <3>1 DEF Turned
  <2>7. CASE ~TtlTooLong(inner) /\ ~Expired(inner, now_ms)
    <3>1. PICK a \in check_and_admit(guard, key, inner.counter, inner.timestamp_ms, now_ms) :
            v = Verdict(IF a.ok THEN told ELSE "Replay", a.tab)
      BY <2>3, <2>7 DEF admit_verified
    <3>2. v.verdict = (IF a.ok THEN told ELSE "Replay") /\ v.guard = a.tab
      BY <3>1 DEF Verdict
    <3>3. CASE /\ a.ok = FALSE /\ a.tab = guard
               /\ ~Passes(guard, key, inner.counter, inner.timestamp_ms, now_ms)
      <4>1. v.verdict # "Opened" /\ v.guard = guard
        BY <3>2, <3>3
      <4> QED
        BY <2>4, <2>5, <3>3, <4>1 DEF Turned
    <3>4. CASE /\ a.ok = TRUE /\ Passes(guard, key, inner.counter, inner.timestamp_ms, now_ms)
               /\ \E E \in SUBSET DOMAIN guard :
                    RecordedAs(guard, E, key, inner.counter, inner.timestamp_ms, a.tab)
      <4>1. PICK E \in SUBSET DOMAIN guard :
              RecordedAs(guard, E, key, inner.counter, inner.timestamp_ms, a.tab)
        BY <3>4
      <4>2. v.verdict = told /\ r.guard = a.tab
        BY <2>4, <3>2, <3>4
      <4>3. plain.ok \in BOOLEAN /\ (~plain.ok => plain.error # "Opened")
        BY DecompressionFails
      <4>4. /\ r.result.ok = plain.ok
            /\ r.result.ok => r.result.value = OpenedMessage(env, inner, plain.value)
        <5>1. CASE plain.ok
          <6>1. r.result = Ok(OpenedMessage(env, inner, plain.value))
            BY <2>4, <4>2, <5>1
          <6> QED
            BY <4>3, <5>1, <6>1 DEF Ok
        <5>2. CASE ~plain.ok
          <6>1. v.verdict # "Opened"
            BY <4>2, <4>3, <5>2
          <6> QED
            BY <2>5, <4>3, <5>2, <6>1
        <5> QED
          BY <5>1, <5>2
      <4>5. LetIn(rsk, env, pub, guard, now_ms, E, r)
        BY <1>2, <2>7, <3>4, <4>1, <4>2, <4>4 DEF LetIn
      <4> QED
        BY <4>5
    <3> QED
      BY <3>3, <3>4, VerdictShape
  <2> QED
    BY <2>6, <2>7
<1> QED
  BY <1>1, <1>2

(***************************************************************************)
(* Sealing.                                                                *)
(***************************************************************************)

\* env is what seal_with_ephemeral fills in for params p, ephemeral secret esk and
\* the inner message.
SealedAs(env, p, esk, inner) ==
  /\ env.version = ENVELOPE_VERSION /\ env.message_type = p.message_type
  /\ env.flags = SealedFlags(p.shape) /\ env.correlation_id = p.correlation_id
  /\ env.sender = p.sender /\ env.recipient = p.recipient
  /\ env.sender_epoch = p.sender_epoch /\ env.stream = p.stream
  /\ env.sealed.kem_enc = public_key_bytes(esk)
  /\ env.sealed.ciphertext # Malformed
  /\ env.sealed.ciphertext.okm
       = kdf(auth_encap_secret(esk, p.sender_sk, p.recipient_pub), public_key_bytes(esk),
             public_key_bytes(p.sender_sk), p.recipient_pub)
  /\ env.sealed.ciphertext.aad = header_bytes(env)
  /\ InnerOf(env) = inner

\* An envelope is made of these fields and no others.
IsEnvelope(env) ==
  /\ env = [version |-> env.version, message_type |-> env.message_type, flags |-> env.flags,
            correlation_id |-> env.correlation_id, sender |-> env.sender,
            recipient |-> env.recipient, sender_epoch |-> env.sender_epoch,
            stream |-> env.stream, sealed |-> env.sealed]
  /\ env.sealed = [kem_enc |-> env.sealed.kem_enc, ciphertext |-> env.sealed.ciphertext]

\* Filling in the ciphertext leaves the header, which it is bound to, as it was.
LEMMA FilledShape ==
  ASSUME NEW p, NEW esk, NEW inner
  PROVE  LET env == Filled(p, esk, Unfilled(p, esk), inner)
         IN  SealedAs(env, p, esk, inner) /\ IsEnvelope(env)
<1> DEFINE u == Unfilled(p, esk)
           okm == kdf(auth_encap_secret(esk, p.sender_sk, p.recipient_pub),
                      public_key_bytes(esk), public_key_bytes(p.sender_sk), p.recipient_pub)
           c == [okm |-> okm, aad |-> header_bytes(u), plaintext |-> inner]
           env == Filled(p, esk, u, inner)
<1>1. u.sealed.kem_enc = public_key_bytes(esk)
  BY DEF Unfilled
<1>2. env = [u EXCEPT !.sealed.ciphertext = c]
  BY <1>1 DEF Filled, aead_seal
<1> HIDE DEF c
<1>3. /\ env.version = ENVELOPE_VERSION /\ env.message_type = p.message_type
      /\ env.flags = SealedFlags(p.shape) /\ env.correlation_id = p.correlation_id
      /\ env.sender = p.sender /\ env.recipient = p.recipient
      /\ env.sender_epoch = p.sender_epoch /\ env.stream = p.stream
      /\ env.sealed.kem_enc = public_key_bytes(esk) /\ env.sealed.ciphertext = c
  BY <1>2 DEF Unfilled
<1>4. IsEnvelope(env)
  BY <1>2 DEF Unfilled, IsEnvelope
<1>5. header_bytes(env) = header_bytes(u)
  BY <1>3 DEF header_bytes, Unfilled
<1>6. c # Malformed /\ c.okm = okm /\ c.aad = header_bytes(u) /\ c.plaintext = inner
  BY DEF c, Malformed
<1> HIDE DEF okm, u, env
<1>7. /\ env.sealed.ciphertext # Malformed /\ env.sealed.ciphertext.okm = okm
      /\ env.sealed.ciphertext.aad = header_bytes(env) /\ InnerOf(env) = inner
  BY <1>3, <1>5, <1>6 DEF InnerOf
<1>8. SealedAs(env, p, esk, inner)
  BY <1>3, <1>7 DEF SealedAs, okm
<1> QED
  BY <1>4, <1>8 DEF env, u

\* The inner message written from p and the compression fields c, but for its type.
WrittenAs(inner, p, c) ==
  /\ inner # Malformed
  /\ inner.correlation_id = p.correlation_id
  /\ inner.compression = c.compression /\ inner.uncompressed_len = c.uncompressed_len
  /\ inner.counter = p.counter /\ inner.timestamp_ms = p.timestamp_ms
  /\ inner.expires_at = p.expires_at /\ inner.payload = c.bytes

\* The inner message of that type, signed with sk for the envelope u.
SignedInner(inner, p, sk, u, c, i, type) ==
  /\ WrittenAs(inner, p, c) /\ inner.message_type = type
  /\ inner.sender_sig = sign(sk, u, i)

\* Signing changes the signature only.
LEMMA SignedShape ==
  ASSUME NEW p, NEW sk, NEW u, NEW c, NEW i, NEW type,
         i = [UnsignedInner(p, c) EXCEPT !.message_type = type]
  PROVE  SignedInner(Signed(sk, u, i), p, sk, u, c, i, type)
<1> DEFINE sig == sign(sk, u, i)
           inner == Signed(sk, u, i)
<1>1. inner = [i EXCEPT !.sender_sig = sig]
  BY DEF Signed
<1> HIDE DEF sig
<1>2. /\ inner.message_type = type /\ inner.correlation_id = p.correlation_id
      /\ inner.compression = c.compression /\ inner.uncompressed_len = c.uncompressed_len
      /\ inner.counter = p.counter /\ inner.timestamp_ms = p.timestamp_ms
      /\ inner.expires_at = p.expires_at /\ inner.payload = c.bytes /\ inner.sender_sig = sig
  BY <1>1 DEF UnsignedInner
<1>3. inner # Malformed
  BY <1>1 DEF UnsignedInner, Malformed
<1> HIDE DEF inner
<1> QED
  BY <1>2, <1>3 DEF SignedInner, WrittenAs, inner, sig

\* The signature of the sealer is the one the opener checks: what it is over does
\* not change when the ciphertext and the signature are filled in.
LEMMA SignedVerifies ==
  ASSUME NEW p, NEW sk, NEW esk, NEW c, NEW i, NEW type, NEW env, NEW inner,
         i = [UnsignedInner(p, c) EXCEPT !.message_type = type],
         SealedAs(env, p, esk, inner), WrittenAs(inner, p, c),
         inner.sender_sig = sign(sk, Unfilled(p, esk), i)
  PROVE  verify(public_key_bytes(sk), env, inner)
<1> DEFINE u == Unfilled(p, esk)
<1>1. /\ u.version = env.version /\ u.message_type = env.message_type /\ u.flags = env.flags
      /\ u.correlation_id = env.correlation_id /\ u.sender = env.sender
      /\ u.recipient = env.recipient /\ u.sender_epoch = env.sender_epoch
      /\ u.stream = env.stream /\ u.sealed.kem_enc = env.sealed.kem_enc
  BY DEF SealedAs, Unfilled
<1>2. /\ i.counter = inner.counter /\ i.timestamp_ms = inner.timestamp_ms
      /\ i.expires_at = inner.expires_at /\ i.compression = inner.compression
      /\ i.uncompressed_len = inner.uncompressed_len /\ i.payload = inner.payload
  BY DEF WrittenAs, UnsignedInner
<1> HIDE DEF u
<1>3. signing_bytes(env, inner) = signing_bytes(u, i)
  BY <1>1, <1>2, Zenon DEF signing_bytes
<1> QED
  BY <1>3, Zenon DEF verify, sign, u

\* The encapsulated key a signature is over.
SignedKey(inner) == inner.sender_sig.over[13]

\* A signature is over the key it was made for ...
LEMMA SignedKeyOf ==
  ASSUME NEW p, NEW sk, NEW esk, NEW i, NEW inner,
         inner.sender_sig = sign(sk, Unfilled(p, esk), i)
  PROVE  SignedKey(inner) = public_key_bytes(esk)
<1>1. inner.sender_sig.over = signing_bytes(Unfilled(p, esk), i)
  BY DEF sign
<1>2. Unfilled(p, esk).sealed.kem_enc = public_key_bytes(esk)
  BY DEF Unfilled
<1>3. ASSUME NEW e, NEW n PROVE signing_bytes(e, n)[13] = e.sealed.kem_enc
  BY DEF signing_bytes, FrameAndSeq
<1> QED
  BY <1>1, <1>2, <1>3 DEF SignedKey

\* ... and verify asks for the one in the envelope.
LEMMA VerifiedKey ==
  ASSUME NEW pub, NEW env, NEW inner, verify(pub, env, inner)
  PROVE  SignedKey(inner) = env.sealed.kem_enc
<1>1. inner.sender_sig.over = signing_bytes(env, inner)
  BY DEF verify
<1>2. ASSUME NEW e, NEW n PROVE signing_bytes(e, n)[13] = e.sealed.kem_enc
  BY DEF signing_bytes, FrameAndSeq
<1> QED
  BY <1>1, <1>2 DEF SignedKey

\* An envelope with an inner message signed by its sealer.
SignedAs(env, p, esk, c, type) ==
  /\ SealedAs(env, p, esk, InnerOf(env)) /\ IsEnvelope(env)
  /\ WrittenAs(InnerOf(env), p, c) /\ InnerOf(env).message_type = type
  /\ verify(public_key_bytes(p.sender_sk), env, InnerOf(env))
  /\ SignedKey(InnerOf(env)) = public_key_bytes(esk)

\* Sealing a signed inner message makes such an envelope, whatever type it names.
LEMMA SealsSigned ==
  ASSUME NEW p, NEW esk, NEW c, NEW type, NEW i, NEW env,
         i = [UnsignedInner(p, c) EXCEPT !.message_type = type],
         env = Filled(p, esk, Unfilled(p, esk), Signed(p.sender_sk, Unfilled(p, esk), i))
  PROVE  SignedAs(env, p, esk, c, type)
<1> DEFINE sk == p.sender_sk
           inner == Signed(sk, Unfilled(p, esk), i)
<1>0. SignedInner(inner, p, sk, Unfilled(p, esk), c, i, type)
  BY SignedShape
<1>1. WrittenAs(inner, p, c) /\ inner.message_type = type
      /\ inner.sender_sig = sign(sk, Unfilled(p, esk), i)
  BY <1>0 DEF SignedInner
<1>2. SealedAs(env, p, esk, inner) /\ IsEnvelope(env)
  BY FilledShape
<1>3. InnerOf(env) = inner
  BY <1>2 DEF SealedAs
<1> HIDE DEF inner
<1>4. verify(public_key_bytes(sk), env, inner)
  BY <1>1, <1>2, SignedVerifies
<1>5. SignedKey(inner) = public_key_bytes(esk)
  BY <1>1, SignedKeyOf
<1> QED
  BY <1>1, <1>2, <1>3, <1>4, <1>5 DEF SignedAs

\* seal_with_ephemeral seals a signed inner message, or fails.
LEMMA SealShape ==
  ASSUME NEW p, NEW esk, seal_with_ephemeral(p, esk).ok
  PROVE  LET c == compress_payload(p.payload)
         IN  /\ c.ok /\ g1_subgroup_check(p.recipient_pub)
             /\ SignedAs(seal_with_ephemeral(p, esk).value, p, esk, c.value, p.message_type)
<1> DEFINE c == compress_payload(p.payload)
           i == UnsignedInner(p, c.value)
           env == Filled(p, esk, Unfilled(p, esk), Signed(p.sender_sk, Unfilled(p, esk), i))
<1>1. c.ok /\ g1_subgroup_check(p.recipient_pub)
  BY DEF seal_with_ephemeral, Err
<1>2. seal_with_ephemeral(p, esk) = Ok(env)
  BY <1>1 DEF seal_with_ephemeral
<1>3. seal_with_ephemeral(p, esk).value = env
  BY <1>2 DEF Ok
<1>4. i = [i EXCEPT !.message_type = p.message_type]
  BY DEF UnsignedInner
<1>5. SignedAs(env, p, esk, c.value, p.message_type)
  BY <1>4, SealsSigned
<1> QED
  BY <1>1, <1>3, <1>5
=============================================================================
