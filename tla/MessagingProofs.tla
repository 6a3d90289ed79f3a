-------------------------- MODULE MessagingProofs --------------------------
(***************************************************************************)
(* Messaging: what its invariants state, for every set of nodes, messages, *)
(* lies, kinds and registries and every bound on the seals, the epochs and *)
(* the clock.                                                              *)
(***************************************************************************)
EXTENDS Messaging, SealProofs

(***************************************************************************)
(* What the relay holds: every entry of the log was sealed with an         *)
(* ephemeral key of its own, and how it was made shows.                    *)
(***************************************************************************)

ParamNames ==
  {"sender_sk", "sender", "sender_epoch", "recipient", "recipient_pub", "message_type",
   "shape", "correlation_id", "stream", "counter", "timestamp_ms", "expires_at", "payload"}

\* The parameters an entry was sealed with.
ParamsType(p) ==
  /\ DOMAIN p = ParamNames
  /\ p.shape \in Shapes /\ p.stream \in Headers \cup {NoStream} /\ p.payload \in Payloads
  /\ p.counter \in 0 .. MaxSeals /\ p.timestamp_ms \in 1 .. MaxNow
  /\ p.sender \in Nodes /\ p.recipient \in Nodes /\ p.sender_epoch \in Nat
  /\ \E n \in Nodes, i \in Nat : p.sender_sk = SecretKey(n, i)
  /\ \E i \in Nat : p.recipient_pub = public_key_bytes(SecretKey(p.recipient, i))

\* Sealed and signed by the sender in its own name.
Own(e) == e.made \in {"sealed", "lied"}

OwnShape(e) ==
  LET p == e.params
      env == e.frame.envelope
      inner == InnerOf(env)
  IN  /\ p.sender_sk = SecretKey(p.sender, p.sender_epoch)
      /\ \E c : WrittenAs(inner, p, c)
      /\ inner.message_type = p.message_type
      /\ verify(public_key_bytes(p.sender_sk), env, inner)

\* What gives each way to make an entry away.
MadeSo(e) ==
  LET p == e.params
      inner == InnerOf(e.frame.envelope)
  IN  /\ e.made \in {"sealed", "lied", "impersonated", "garbled", "mislabelled", "forwarded"}
      /\ Own(e) => OwnShape(e)
      /\ e.made = "sealed" => LET c == compress_payload(p.payload)
                              IN  c.ok /\ WrittenAs(inner, p, c.value)
      /\ e.made = "impersonated" => p.sender # p.sender_sk[1]
      /\ e.made = "garbled" => inner = Malformed
      /\ e.made = "mislabelled" => inner.message_type # p.message_type
      /\ e.made = "forwarded" => SignedKey(inner) # e.frame.envelope.sealed.kem_enc
      /\ inner # Malformed => inner.payload \in Bytes /\ inner.uncompressed_len \in U32

\* An entry, and the number of the ephemeral key it was sealed with.
EphemeralKey(k) == <<Ephemeral, k>>

EntryType(e, k) ==
  /\ e.frame.len \in Nat /\ e.frame.len <= MAX_ENVELOPE_BYTES
  /\ ParamsType(e.params)
  /\ IsEnvelope(e.frame.envelope)
  /\ SealedAs(e.frame.envelope, e.params, EphemeralKey(k), InnerOf(e.frame.envelope))
  /\ MadeSo(e)

Entry(made, params, env) ==
  [made |-> made, params |-> params, frame |-> [len |-> EncodedLen(env), envelope |-> env]]

RouteOf(e) == <<e.params.sender, e.params.recipient>>

\* The log as the relay holds it.
LogInv ==
  /\ \A e \in log : \E k \in 0 .. seals - 1 : EntryType(e, k)
  /\ \A e, f \in log : e.frame.envelope.sealed.kem_enc = f.frame.envelope.sealed.kem_enc => e = f
  /\ \A e \in log : e.params.sender_epoch <= epoch[e.params.sender]

\* The counters of a route: every entry has one of its own.
CounterInv ==
  /\ \A e \in log : Own(e) => RouteOf(e) \in Routes /\ e.params.counter < counter[RouteOf(e)]
  /\ \A e, f \in log : /\ Own(e) /\ Own(f) /\ RouteOf(e) = RouteOf(f)
                       /\ e.params.counter = f.params.counter
                       => e = f

\* The bounded counters and clocks.
Clocks ==
  /\ seals \in 0 .. MaxSeals
  /\ counter \in [Routes -> 0 .. seals]
  /\ epoch \in [Nodes -> Nat] /\ \A n \in Nodes : epoch[n] \in 0 .. MaxEpoch[n]
  /\ now \in 1 .. MaxNow

\* encode_envelope lets an attempt through, or nothing is sent.
LEMMA AttemptAppends ==
  ASSUME NEW route, NEW made, NEW params, NEW sealed, Attempt(route, made, params, sealed)
  PROVE  \/ log' = log
         \/ /\ sealed.ok /\ ~(EncodedLen(sealed.value) > MAX_ENVELOPE_BYTES)
            /\ log' = log \cup {Entry(made, params, sealed.value)}
<1> DEFINE encoded == IF sealed.ok THEN encode_envelope(sealed.value) ELSE sealed
<1>1. log' = IF encoded.ok THEN log \cup {[made |-> made, params |-> params, frame |-> encoded.value]}
                           ELSE log
  BY DEF Attempt
<1>2. CASE ~encoded.ok
  BY <1>1, <1>2
<1>3. CASE encoded.ok
  <2>1. sealed.ok /\ encode_envelope(sealed.value).ok
    BY <1>3
  <2>2. ~(EncodedLen(sealed.value) > MAX_ENVELOPE_BYTES)
    BY <2>1 DEF encode_envelope, Err
  <2>3. encoded.value = [len |-> EncodedLen(sealed.value), envelope |-> sealed.value]
    BY <2>1, <2>2 DEF encode_envelope, Ok
  <2> QED
    BY <1>1, <1>3, <2>1, <2>2, <2>3 DEF Entry
<1> QED
  BY <1>2, <1>3

\* An inner message's length is a number, and so is that of its envelope.
LEMMA EncodedLenType ==
  ASSUME NEW env, InnerOf(env) # Malformed => InnerOf(env).payload \in Bytes
  PROVE  EncodedLen(env) \in Nat
<1>1. {FIXED_BYTES, STREAM_BYTES} \subseteq Nat
  BY EnvelopeAssumption
<1>2. ASSUME NEW b \in Bytes PROVE ByteLen(b) \in Nat
  BY <1>2, CompressionAssumption DEF ByteLen, Bytes
<1>3. InnerOf(env) # Malformed => ByteLen(InnerOf(env).payload) \in Nat
  BY <1>2
<1> QED
  BY <1>1, <1>3 DEF EncodedLen, InnerOf

\* What the caller passes to seal_message.
LEMMA SealParamsType ==
  ASSUME Clocks, NEW route \in Routes, NEW m \in Messages, route[2] \in Nodes
  PROVE  LET p == SealParams(route, m)
         IN  /\ ParamsType(p) /\ p.sender_sk = SecretKey(p.sender, p.sender_epoch)
             /\ p.sender = route[1] /\ p.recipient = route[2] /\ p.counter = counter[route]
             /\ p.message_type = m.message_type /\ p.payload = m.payload
             /\ p.sender_epoch <= epoch[p.sender]
<1> DEFINE p == SealParams(route, m)
<1>1. route[1] \in Nodes /\ route[2] \notin Unsound
  BY MessagingAssumption
<1>2. /\ DOMAIN p = ParamNames /\ p.sender = route[1] /\ p.recipient = route[2]
      /\ p.sender_sk = CurrentKey(route[1]) /\ p.sender_epoch = epoch[route[1]]
      /\ p.recipient_pub = RecipientPub(route[2])
  BY DEF SealParams, ParamNames
<1>3. /\ p.message_type = m.message_type /\ p.payload = m.payload /\ p.shape = m.shape
      /\ p.stream = m.stream /\ p.counter = counter[route] /\ p.timestamp_ms = now
  BY DEF SealParams
<1> HIDE DEF p
<1>4. p.recipient_pub = public_key_bytes(SecretKey(p.recipient, epoch[p.recipient]))
  BY <1>1, <1>2 DEF RecipientPub, CurrentKey
<1>5. p.sender_sk = SecretKey(p.sender, p.sender_epoch)
  BY <1>2 DEF CurrentKey
<1>6. p.sender \in Nodes /\ p.recipient \in Nodes /\ p.sender_epoch \in Nat
      /\ epoch[p.recipient] \in Nat /\ p.sender_epoch <= epoch[p.sender]
  BY <1>1, <1>2 DEF Clocks
<1>7. p.counter \in 0 .. MaxSeals /\ p.timestamp_ms \in 1 .. MaxNow
  BY <1>3, MessagingAssumption DEF Clocks, U64
<1>8. p.shape \in Shapes /\ p.stream \in Headers \cup {NoStream} /\ p.payload \in Payloads
  BY <1>3, MessagingAssumption
<1>9. ParamsType(p)
  BY <1>2, <1>4, <1>5, <1>6, <1>7, <1>8 DEF ParamsType
<1> QED
  BY <1>2, <1>3, <1>5, <1>6, <1>9 DEF p

\* A signed inner message with the compression fields c makes a well-formed entry,
\* if how it is said to be made is how it was made.
LEMMA SignedEntry ==
  ASSUME NEW made, NEW p, ParamsType(p), NEW k, NEW c, NEW type, NEW env,
         SignedAs(env, p, EphemeralKey(k), c, type),
         ~(EncodedLen(env) > MAX_ENVELOPE_BYTES),
         c.bytes \in Bytes, c.uncompressed_len \in U32,
         \/ /\ made = "sealed" /\ type = p.message_type
            /\ compress_payload(p.payload).ok /\ c = compress_payload(p.payload).value
            /\ p.sender_sk = SecretKey(p.sender, p.sender_epoch)
         \/ /\ made = "lied" /\ type = p.message_type
            /\ p.sender_sk = SecretKey(p.sender, p.sender_epoch)
         \/ made = "impersonated" /\ p.sender # p.sender_sk[1]
         \/ made = "mislabelled" /\ type # p.message_type
  PROVE  EntryType(Entry(made, p, env), k)
<1> DEFINE e == Entry(made, p, env)
           inner == InnerOf(env)
<1>1. e.made = made /\ e.params = p /\ e.frame.len = EncodedLen(env) /\ e.frame.envelope = env
  BY DEF Entry
<1>2. /\ SealedAs(env, p, EphemeralKey(k), inner) /\ IsEnvelope(env)
      /\ WrittenAs(inner, p, c) /\ inner.message_type = type
      /\ verify(public_key_bytes(p.sender_sk), env, inner)
  BY DEF SignedAs
<1>3. inner.payload \in Bytes /\ inner.uncompressed_len \in U32
  BY <1>2 DEF WrittenAs
<1> HIDE DEF e, inner
<1>4. EncodedLen(env) \in Nat /\ EncodedLen(env) <= MAX_ENVELOPE_BYTES
  BY <1>3, EncodedLenType, EnvelopeAssumption DEF inner
<1>5. Own(e) => OwnShape(e)
  BY <1>1, <1>2 DEF Own, OwnShape, inner
<1>6. MadeSo(e)
  BY <1>1, <1>2, <1>3, <1>5 DEF MadeSo, inner
<1> QED
  BY <1>1, <1>2, <1>4, <1>6 DEF EntryType, e, inner

\* An attempt to seal along a route adds an entry at most, and if that is in its
\* sealer's own name it is on that route and has its counter.
Adds(route, e) ==
  /\ log' = log \cup {e} /\ EntryType(e, seals)
  /\ e.params.sender_epoch <= epoch[e.params.sender]
  /\ Own(e) => RouteOf(e) = route /\ e.params.counter = counter[route]

Grows(route) == log' = log \/ \E e : Adds(route, e)

\* A point that seal_message accepts is the key of a node.
LEMMA SoundRecipient ==
  ASSUME NEW route \in Routes, g1_subgroup_check(RecipientPub(route[2]))
  PROVE  route[2] \in Nodes
<1>1. route[2] \notin Unsound
  BY DEF RecipientPub, g1_subgroup_check
<1> QED
  BY <1>1, MessagingAssumption

\* A route is a pair of DIDs.
LEMMA RoutePair == ASSUME NEW route \in Routes PROVE route = <<route[1], route[2]>> /\ route[1] \in Nodes
  BY MessagingAssumption

\* seal_message.
LEMMA SendGrows ==
  ASSUME Clocks, NEW route \in Routes, NEW m \in Messages, Send(route, m)
  PROVE  Grows(route)
<1> DEFINE p == SealParams(route, m)
           sealed == seal_with_ephemeral(p, Esk)
           c == compress_payload(p.payload)
<1>1. Attempt(route, "sealed", p, sealed)
  BY DEF Send
<1>2. p.recipient_pub = RecipientPub(route[2])
  BY DEF SealParams
<1> HIDE DEF p, sealed, c
<1>3. CASE log' = log
  BY <1>3 DEF Grows
<1>4. CASE /\ sealed.ok /\ ~(EncodedLen(sealed.value) > MAX_ENVELOPE_BYTES)
           /\ log' = log \cup {Entry("sealed", p, sealed.value)}
  <2> DEFINE e == Entry("sealed", p, sealed.value)
  <2>1. /\ c.ok /\ g1_subgroup_check(p.recipient_pub)
        /\ SignedAs(sealed.value, p, Esk, c.value, p.message_type)
    BY <1>4, SealShape DEF sealed, c
  <2>2. route[2] \in Nodes
    BY <1>2, <2>1, SoundRecipient
  <2>3. /\ ParamsType(p) /\ p.sender_sk = SecretKey(p.sender, p.sender_epoch)
        /\ p.sender = route[1] /\ p.recipient = route[2] /\ p.counter = counter[route]
        /\ p.sender_epoch <= epoch[p.sender]
    BY <2>2, SealParamsType DEF p
  <2>4. c.value.bytes \in Bytes /\ c.value.uncompressed_len \in U32
    <3>1. p.payload \in Payloads
      BY <2>3 DEF ParamsType
    <3> QED
      BY <2>1, <3>1, CompressType DEF c
  <2>5. SignedAs(sealed.value, p, EphemeralKey(seals), c.value, p.message_type)
    BY <2>1 DEF EphemeralKey, Esk
  <2>6. EntryType(e, seals)
    BY <1>4, <2>1, <2>3, <2>4, <2>5, SignedEntry DEF c
  <2>7. e.params = p
    BY DEF Entry
  <2>8. RouteOf(e) = route
    BY <2>3, <2>7, RoutePair DEF RouteOf
  <2> HIDE DEF e
  <2>9. Adds(route, e)
    BY <1>4, <2>3, <2>6, <2>7, <2>8 DEF Adds, e
  <2> QED
    BY <2>9 DEF Grows
<1> QED
  BY <1>1, <1>3, <1>4, AttemptAppends

\* Sealing in another's name.
LEMMA ImpersonateGrows ==
  ASSUME Clocks, NEW route \in Routes, NEW m \in Messages, NEW other \in Nodes,
         Impersonate(route, m, other)
  PROVE  Grows(route)
<1> DEFINE q == SealParams(route, m)
           p == [q EXCEPT !.sender = other, !.sender_epoch = epoch[other]]
           sealed == seal_with_ephemeral(p, Esk)
           c == compress_payload(p.payload)
<1>1. Attempt(route, "impersonated", p, sealed) /\ other # route[1]
  BY DEF Impersonate
<1>2. q.recipient_pub = RecipientPub(route[2]) /\ DOMAIN q = ParamNames
  BY DEF SealParams, ParamNames
<1> HIDE DEF q
<1>a. /\ DOMAIN p = ParamNames /\ p.sender = other /\ p.sender_epoch = epoch[other]
      /\ p.sender_sk = q.sender_sk /\ p.recipient = q.recipient
      /\ p.recipient_pub = q.recipient_pub /\ p.shape = q.shape /\ p.stream = q.stream
      /\ p.payload = q.payload /\ p.counter = q.counter /\ p.timestamp_ms = q.timestamp_ms
  BY <1>2 DEF ParamNames
<1> HIDE DEF p, sealed, c
<1>3. CASE log' = log
  BY <1>3 DEF Grows
<1>4. CASE /\ sealed.ok /\ ~(EncodedLen(sealed.value) > MAX_ENVELOPE_BYTES)
           /\ log' = log \cup {Entry("impersonated", p, sealed.value)}
  <2> DEFINE e == Entry("impersonated", p, sealed.value)
  <2>1. /\ c.ok /\ g1_subgroup_check(p.recipient_pub)
        /\ SignedAs(sealed.value, p, Esk, c.value, p.message_type)
    BY <1>4, SealShape DEF sealed, c
  <2>2. route[2] \in Nodes
    BY <1>2, <1>a, <2>1, SoundRecipient
  <2>3. ParamsType(q) /\ q.sender_sk = SecretKey(q.sender, q.sender_epoch) /\ q.sender = route[1]
    BY <2>2, SealParamsType DEF q
  <2>4. ParamsType(p)
    <3>1. epoch[other] \in Nat
      BY DEF Clocks
    <3> QED
      BY <1>a, <2>3, <3>1 DEF ParamsType
  <2>5. c.value.bytes \in Bytes /\ c.value.uncompressed_len \in U32
    <3>1. p.payload \in Payloads
      BY <2>4 DEF ParamsType
    <3> QED
      BY <2>1, <3>1, CompressType DEF c
  <2>6. p.sender # p.sender_sk[1]
    BY <1>1, <1>a, <2>3 DEF SecretKey
  <2>7. SignedAs(sealed.value, p, EphemeralKey(seals), c.value, p.message_type)
    BY <2>1 DEF EphemeralKey, Esk
  <2>8. EntryType(e, seals)
    BY <1>4, <2>1, <2>4, <2>5, <2>6, <2>7, SignedEntry DEF c
  <2>9. e.params = p /\ ~Own(e)
    BY DEF Entry, Own
  <2>10. epoch[other] <= epoch[other]
    BY DEF Clocks
  <2> HIDE DEF e
  <2>11. Adds(route, e)
    BY <1>4, <1>a, <2>8, <2>9, <2>10 DEF Adds, e
  <2> QED
    BY <2>11 DEF Grows
<1> QED
  BY <1>1, <1>3, <1>4, AttemptAppends

\* What a dishonest node seals itself is sent as it is, if it fits.
LEMMA SealInnerAppends ==
  ASSUME NEW route, NEW made, NEW p, NEW inner, SealInner(route, made, p, inner)
  PROVE  LET env == Filled(p, Esk, Unfilled(p, Esk), inner)
         IN  /\ route[2] \in Nodes
             /\ \/ log' = log
                \/ /\ ~(EncodedLen(env) > MAX_ENVELOPE_BYTES)
                   /\ log' = log \cup {Entry(made, p, env)}
<1> DEFINE env == Filled(p, Esk, Unfilled(p, Esk), inner)
<1>1. route[2] \in Nodes /\ Attempt(route, made, p, Ok(env))
  BY DEF SealInner
<1>2. Ok(env).value = env
  BY DEF Ok
<1> HIDE DEF env
<1>3. \/ log' = log
      \/ /\ Ok(env).ok /\ ~(EncodedLen(Ok(env).value) > MAX_ENVELOPE_BYTES)
         /\ log' = log \cup {Entry(made, p, Ok(env).value)}
  BY <1>1, AttemptAppends
<1> QED
  BY <1>1, <1>2, <1>3 DEF env

\* Sealing a signed inner message whose type or compression fields are not true.
LEMMA SignedLieGrows ==
  ASSUME Clocks, NEW route \in Routes, NEW m \in Messages, NEW made, NEW c, NEW type,
         c.bytes \in Bytes, c.uncompressed_len \in U32,
         \/ made = "lied" /\ type = m.message_type
         \/ made = "mislabelled" /\ type # m.message_type,
         NEW i, i = [UnsignedInner(SealParams(route, m), c) EXCEPT !.message_type = type],
         SealInner(route, made, SealParams(route, m),
                   Signed(SealParams(route, m).sender_sk, Unfilled(SealParams(route, m), Esk), i))
  PROVE  Grows(route)
<1> DEFINE p == SealParams(route, m)
           env == Filled(p, Esk, Unfilled(p, Esk), Signed(p.sender_sk, Unfilled(p, Esk), i))
           e == Entry(made, p, env)
<1> HIDE DEF p
<1>1. /\ route[2] \in Nodes
      /\ \/ log' = log
         \/ ~(EncodedLen(env) > MAX_ENVELOPE_BYTES) /\ log' = log \cup {e}
  BY SealInnerAppends DEF p
<1>2. SignedAs(env, p, EphemeralKey(seals), c, type)
  <2>1. SignedAs(env, p, Esk, c, type)
    BY SealsSigned DEF p
  <2> QED
    BY <2>1 DEF EphemeralKey, Esk
<1> HIDE DEF env
<1>3. CASE log' = log
  BY <1>3 DEF Grows
<1>4. CASE ~(EncodedLen(env) > MAX_ENVELOPE_BYTES) /\ log' = log \cup {e}
  <2>3. /\ ParamsType(p) /\ p.sender_sk = SecretKey(p.sender, p.sender_epoch)
        /\ p.sender = route[1] /\ p.recipient = route[2] /\ p.counter = counter[route]
        /\ p.sender_epoch <= epoch[p.sender] /\ p.message_type = m.message_type
    BY <1>1, SealParamsType DEF p
  <2>6. EntryType(e, seals)
    BY <1>2, <1>4, <2>3, SignedEntry
  <2>7. e.params = p
    BY DEF Entry
  <2>8. RouteOf(e) = route
    BY <2>3, <2>7, RoutePair DEF RouteOf
  <2> HIDE DEF e
  <2>9. Adds(route, e)
    BY <1>4, <2>3, <2>6, <2>7, <2>8 DEF Adds, e
  <2> QED
    BY <2>9 DEF Grows
<1> QED
  BY <1>1, <1>3, <1>4

\* An inner message of another type than the header says.
LEMMA MislabelGrows ==
  ASSUME Clocks, NEW route \in Routes, NEW m \in Messages, NEW type, Mislabel(route, m, type)
  PROVE  Grows(route)
<1> DEFINE p == SealParams(route, m)
           c == compress_payload(m.payload)
           i == [UnsignedInner(p, c.value) EXCEPT !.message_type = type]
<1>1. /\ c.ok /\ type # m.message_type
      /\ SealInner(route, "mislabelled", p, Signed(p.sender_sk, Unfilled(p, Esk), i))
  BY DEF Mislabel
<1>2. m.payload \in Payloads
  BY MessagingAssumption
<1>3. c.value.bytes \in Bytes /\ c.value.uncompressed_len \in U32
  BY <1>1, <1>2, CompressType
<1> HIDE DEF c
<1> QED
  BY <1>1, <1>3, SignedLieGrows

\* An inner message whose compression fields are made up.
LEMMA LieGrows ==
  ASSUME Clocks, NEW route \in Routes, NEW m \in Messages, NEW lie \in Lies, Lie(route, m, lie)
  PROVE  Grows(route)
<1> DEFINE p == SealParams(route, m)
           i == UnsignedInner(p, lie)
<1>1. SealInner(route, "lied", p, Signed(p.sender_sk, Unfilled(p, Esk), i))
  BY DEF Lie
<1>2. i = [i EXCEPT !.message_type = m.message_type]
  BY DEF UnsignedInner, SealParams
<1>3. lie.bytes \in Bytes /\ lie.uncompressed_len \in U32
  BY MessagingAssumption
<1> QED
  BY <1>1, <1>2, <1>3, SignedLieGrows

\* Bytes that are no inner message.
LEMMA GarbleGrows ==
  ASSUME Clocks, NEW route \in Routes, NEW m \in Messages, Garble(route, m)
  PROVE  Grows(route)
<1> DEFINE p == SealParams(route, m)
           env == Filled(p, Esk, Unfilled(p, Esk), Malformed)
           e == Entry("garbled", p, env)
<1>0. SealInner(route, "garbled", p, Malformed)
  BY DEF Garble
<1> HIDE DEF p
<1>1. /\ route[2] \in Nodes
      /\ \/ log' = log
         \/ ~(EncodedLen(env) > MAX_ENVELOPE_BYTES) /\ log' = log \cup {e}
  BY <1>0, SealInnerAppends
<1>2. SealedAs(env, p, EphemeralKey(seals), Malformed) /\ IsEnvelope(env)
  BY FilledShape DEF EphemeralKey, Esk
<1>3. InnerOf(env) = Malformed
  BY <1>2 DEF SealedAs
<1> HIDE DEF env
<1>4. CASE log' = log
  BY <1>4 DEF Grows
<1>5. CASE ~(EncodedLen(env) > MAX_ENVELOPE_BYTES) /\ log' = log \cup {e}
  <2>1. ParamsType(p) /\ p.sender_epoch <= epoch[p.sender]
    BY <1>1, SealParamsType DEF p
  <2>2. /\ e.made = "garbled" /\ e.params = p /\ e.frame.len = EncodedLen(env)
        /\ e.frame.envelope = env /\ ~Own(e)
    BY DEF Entry, Own
  <2>3. EncodedLen(env) \in Nat /\ EncodedLen(env) <= MAX_ENVELOPE_BYTES
    BY <1>3, <1>5, EncodedLenType, EnvelopeAssumption
  <2> HIDE DEF e
  <2>4. MadeSo(e)
    BY <1>3, <2>2 DEF MadeSo
  <2>5. EntryType(e, seals)
    BY <1>2, <1>3, <2>1, <2>2, <2>3, <2>4 DEF EntryType
  <2>6. Adds(route, e)
    BY <1>5, <2>1, <2>2, <2>5 DEF Adds
  <2> QED
    BY <2>6 DEF Grows
<1> QED
  BY <1>1, <1>4, <1>5

\* A message received from someone else, passed on: its signature is over the
\* ephemeral key it first came with.
LEMMA ForwardGrows ==
  ASSUME Clocks, LogInv, NEW route \in Routes, NEW entry \in log, NEW author \in Nodes,
         Forward(route, entry, author)
  PROVE  Grows(route)
<1> DEFINE inner == entry.frame.envelope.sealed.ciphertext.plaintext
           q == entry.params
           p == [entry.params EXCEPT
                   !.sender_sk = CurrentKey(route[1]), !.sender = author,
                   !.sender_epoch = epoch[author],
                   !.recipient = route[2], !.recipient_pub = RecipientPub(route[2])]
           env == Filled(p, Esk, Unfilled(p, Esk), inner)
           e == Entry("forwarded", p, env)
<1>0. entry.made = "sealed" /\ SealInner(route, "forwarded", p, inner)
  BY DEF Forward
<1>1. PICK k \in 0 .. seals - 1 : EntryType(entry, k)
  BY DEF LogInv
<1>2. ParamsType(q) /\ DOMAIN q = ParamNames
  BY <1>1 DEF EntryType, ParamsType
<1>3. /\ DOMAIN p = ParamNames /\ p.sender = author /\ p.sender_epoch = epoch[author]
      /\ p.sender_sk = CurrentKey(route[1]) /\ p.recipient = route[2]
      /\ p.recipient_pub = RecipientPub(route[2]) /\ p.shape = q.shape /\ p.stream = q.stream
      /\ p.payload = q.payload /\ p.counter = q.counter /\ p.timestamp_ms = q.timestamp_ms
  BY <1>2 DEF ParamNames
<1> HIDE DEF p
<1>4. /\ route[2] \in Nodes
      /\ \/ log' = log
         \/ ~(EncodedLen(env) > MAX_ENVELOPE_BYTES) /\ log' = log \cup {e}
  BY <1>0, SealInnerAppends
<1>5. ParamsType(p) /\ p.sender_epoch <= epoch[p.sender]
  <2>1. route[1] \in Nodes /\ route[2] \notin Unsound
    BY <1>4, MessagingAssumption
  <2>2. epoch[author] \in Nat /\ epoch[route[1]] \in Nat /\ epoch[route[2]] \in Nat
    BY <1>4, <2>1 DEF Clocks
  <2>3. p.recipient_pub = public_key_bytes(SecretKey(p.recipient, epoch[route[2]]))
    BY <1>3, <2>1 DEF RecipientPub, CurrentKey
  <2>4. p.sender_sk = SecretKey(route[1], epoch[route[1]])
    BY <1>3 DEF CurrentKey
  <2>5. ParamsType(p)
    BY <1>2, <1>3, <1>4, <2>1, <2>2, <2>3, <2>4 DEF ParamsType
  <2> QED
    BY <1>3, <2>2, <2>5
<1>6. SealedAs(env, p, EphemeralKey(seals), inner) /\ IsEnvelope(env)
  BY FilledShape DEF EphemeralKey, Esk
<1>7. InnerOf(env) = inner /\ env.sealed.kem_enc = public_key_bytes(EphemeralKey(seals))
  BY <1>6 DEF SealedAs
<1>8. inner = InnerOf(entry.frame.envelope)
  BY DEF InnerOf
<1> HIDE DEF env, inner, q
<1>9. /\ inner # Malformed /\ inner.payload \in Bytes /\ inner.uncompressed_len \in U32
      /\ SignedKey(inner) = public_key_bytes(EphemeralKey(k))
  <2>1. MadeSo(entry) /\ OwnShape(entry)
    BY <1>0, <1>1 DEF EntryType, MadeSo, Own
  <2>2. inner # Malformed
    BY <1>8, <2>1 DEF OwnShape, WrittenAs
  <2>3. inner.payload \in Bytes /\ inner.uncompressed_len \in U32
    BY <1>8, <2>1, <2>2 DEF MadeSo
  <2>4. SignedKey(inner) = entry.frame.envelope.sealed.kem_enc
    BY <1>8, <2>1, VerifiedKey DEF OwnShape
  <2>5. entry.frame.envelope.sealed.kem_enc = public_key_bytes(EphemeralKey(k))
    BY <1>1 DEF EntryType, SealedAs
  <2> QED
    BY <2>2, <2>3, <2>4, <2>5
<1>10. SignedKey(inner) # env.sealed.kem_enc
  <2>1. k # seals
    BY <1>1 DEF Clocks
  <2>2. EphemeralKey(k) # EphemeralKey(seals)
    BY <2>1 DEF EphemeralKey
  <2> QED
    BY <1>7, <1>9, <2>2 DEF public_key_bytes
<1>11. CASE log' = log
  BY <1>11 DEF Grows
<1>12. CASE ~(EncodedLen(env) > MAX_ENVELOPE_BYTES) /\ log' = log \cup {e}
  <2>2. /\ e.made = "forwarded" /\ e.params = p /\ e.frame.len = EncodedLen(env)
        /\ e.frame.envelope = env /\ ~Own(e)
    BY DEF Entry, Own
  <2>3. EncodedLen(env) \in Nat /\ EncodedLen(env) <= MAX_ENVELOPE_BYTES
    BY <1>7, <1>9, <1>12, EncodedLenType, EnvelopeAssumption
  <2> HIDE DEF e
  <2>4. MadeSo(e)
    BY <1>7, <1>9, <1>10, <2>2 DEF MadeSo
  <2>5. EntryType(e, seals)
    BY <1>5, <1>6, <1>7, <2>2, <2>3, <2>4 DEF EntryType
  <2>6. Adds(route, e)
    BY <1>5, <1>12, <2>2, <2>5 DEF Adds
  <2> QED
    BY <2>6 DEF Grows
<1> QED
  BY <1>4, <1>11, <1>12

\* A step that seals.
Seals(route) ==
  /\ seals < MaxSeals /\ seals' = seals + 1
  /\ counter' = [counter EXCEPT ![route] = @ + 1]
  /\ UNCHANGED <<epoch, guard, registry, now, admitted, handled>>
  /\ Grows(route)

\* Every step of the system, by what it changes.
StepKind ==
  \/ \E route \in Routes : Seals(route)
  \/ \E n \in Nodes, frame \in Presentable : Receive(n, frame)
  \/ \E n \in Nodes : Rotate(n)
  \/ \E n \in Nodes, kind \in Kinds : Register(n, kind)
  \/ Tick
  \/ UNCHANGED vars

\* All the ways to seal, of the code and of a dishonest node, are alike in that.
LEMMA NextKind ==
  ASSUME Clocks, LogInv, [Next]_vars
  PROVE  StepKind
<1>1. ASSUME NEW route, NEW made, NEW p, NEW sealed, Attempt(route, made, p, sealed), Grows(route)
      PROVE  Seals(route)
  BY <1>1 DEF Attempt, Seals
<1>2. ASSUME NEW s \in Sends, Send(s[1], s[2]) PROVE StepKind
  <2>1. s[1] \in Routes /\ s[2] \in Messages
    BY DEF Routes, Messages
  <2>2. Grows(s[1])
    BY <1>2, <2>1, SendGrows
  <2>3. Seals(s[1])
    BY <1>1, <1>2, <2>2 DEF Send
  <2> QED
    BY <2>1, <2>3 DEF StepKind
<1>3. ASSUME NEW route \in Routes, Craft(route) PROVE StepKind
  <2>0. Crafted \subseteq Messages
    BY DEF Messages
  <2>1. ASSUME NEW m \in Crafted, NEW other \in Nodes, Impersonate(route, m, other)
        PROVE  Seals(route)
    <3>1. Grows(route)
      BY <2>0, <2>1, ImpersonateGrows
    <3> QED
      BY <1>1, <2>1, <3>1 DEF Impersonate
  <2>2. ASSUME NEW m \in Crafted, Garble(route, m) PROVE Seals(route)
    <3>1. Grows(route)
      BY <2>0, <2>2, GarbleGrows
    <3> QED
      BY <1>1, <2>2, <3>1 DEF Garble, SealInner
  <2>3. ASSUME NEW m \in Crafted, NEW type \in Types, Mislabel(route, m, type)
        PROVE  Seals(route)
    <3>1. Grows(route)
      BY <2>0, <2>3, MislabelGrows
    <3> QED
      BY <1>1, <2>3, <3>1 DEF Mislabel, SealInner
  <2>4. ASSUME NEW m \in Crafted, NEW lie \in Lies, Lie(route, m, lie) PROVE Seals(route)
    <3>1. Grows(route)
      BY <2>0, <2>4, LieGrows
    <3> QED
      BY <1>1, <2>4, <3>1 DEF Lie, SealInner
  <2>5. ASSUME NEW entry \in log, NEW author \in Nodes, Forward(route, entry, author)
        PROVE  Seals(route)
    <3>1. Grows(route)
      BY <2>5, ForwardGrows
    <3> QED
      BY <1>1, <2>5, <3>1 DEF Forward, SealInner
  <2>6. Seals(route)
    BY <1>3, <2>1, <2>2, <2>3, <2>4, <2>5 DEF Craft
  <2> QED
    BY <2>6 DEF StepKind
<1>4. Registering \subseteq Nodes
  BY MessagingAssumption
<1>5. ASSUME NEW n \in Registering, NEW kind \in Kinds, Register(n, kind) PROVE StepKind
  BY <1>4, <1>5 DEF StepKind
<1>6. ASSUME NEW n \in Nodes, (\E frame \in Presentable : Receive(n, frame)) \/ Rotate(n)
      PROVE  StepKind
  BY <1>6 DEF StepKind
<1>7. Tick \/ UNCHANGED vars => StepKind
  BY DEF StepKind
<1> QED
  BY <1>2, <1>3, <1>5, <1>6, <1>7 DEF Next

StoreInv == Clocks /\ LogInv /\ CounterInv

\* A new entry has an ephemeral key of its own and, on its route, a counter of its own.
LEMMA SealsKeeps ==
  ASSUME StoreInv, NEW route \in Routes, Seals(route)
  PROVE  StoreInv'
<1>1. /\ seals \in Nat /\ MaxSeals \in Nat /\ counter \in [Routes -> 0 .. seals]
      /\ seals' = seals + 1 /\ seals < MaxSeals
  BY MessagingAssumption DEF StoreInv, Clocks, Seals, U64
<1>2. /\ counter' \in [Routes -> 0 .. seals']
      /\ counter'[route] = counter[route] + 1
      /\ \A r \in Routes : counter[r] \in Nat /\ counter[r] <= counter'[r]
  BY <1>1 DEF Seals
<1>3. Clocks'
  BY <1>1, <1>2 DEF StoreInv, Clocks, Seals
<1>4. /\ \A e \in log : \E k \in 0 .. seals' - 1 : EntryType(e, k)
      /\ \A e \in log : e.params.sender_epoch <= epoch'[e.params.sender]
  <2>1. 0 .. seals - 1 \subseteq 0 .. seals' - 1
    BY <1>1
  <2> QED
    BY <2>1 DEF StoreInv, LogInv, Seals
<1>5. \A e \in log : Own(e) => RouteOf(e) \in Routes /\ e.params.counter < counter'[RouteOf(e)]
  <2> SUFFICES ASSUME NEW e \in log, Own(e)
               PROVE  RouteOf(e) \in Routes /\ e.params.counter < counter'[RouteOf(e)]
    OBVIOUS
  <2>1. RouteOf(e) \in Routes /\ e.params.counter < counter[RouteOf(e)]
    BY DEF StoreInv, CounterInv
  <2>2. e.params.counter \in Nat
    <3>1. PICK k \in 0 .. seals - 1 : EntryType(e, k)
      BY DEF StoreInv, LogInv
    <3> QED
      BY <1>1, <3>1 DEF EntryType, ParamsType
  <2>3. counter[RouteOf(e)] \in Nat /\ counter'[RouteOf(e)] \in Nat
        /\ counter[RouteOf(e)] <= counter'[RouteOf(e)]
    BY <1>1, <1>2, <2>1
  <2> QED
    BY <2>1, <2>2, <2>3
<1>6. CASE log' = log
  BY <1>3, <1>4, <1>5, <1>6 DEF StoreInv, LogInv, CounterInv
<1>7. ASSUME NEW e, Adds(route, e) PROVE StoreInv'
  <2>1. /\ log' = log \cup {e} /\ EntryType(e, seals)
        /\ e.params.sender_epoch <= epoch'[e.params.sender]
        /\ Own(e) => RouteOf(e) = route /\ e.params.counter = counter[route]
    BY <1>7 DEF Adds, Seals
  <2>2. seals \in 0 .. seals' - 1
    BY <1>1
  <2>3. \A f \in log' : \E k \in 0 .. seals' - 1 : EntryType(f, k)
    BY <1>4, <2>1, <2>2
  <2>4. \A f \in log' : f.params.sender_epoch <= epoch'[f.params.sender]
    BY <1>4, <2>1
  <2>5. ASSUME NEW f \in log
        PROVE  f.frame.envelope.sealed.kem_enc # e.frame.envelope.sealed.kem_enc
    <3>1. PICK k \in 0 .. seals - 1 : EntryType(f, k)
      BY DEF StoreInv, LogInv
    <3>2. /\ f.frame.envelope.sealed.kem_enc = public_key_bytes(EphemeralKey(k))
          /\ e.frame.envelope.sealed.kem_enc = public_key_bytes(EphemeralKey(seals))
      BY <2>1, <3>1 DEF EntryType, SealedAs
    <3>3. k # seals
      BY <1>1, <3>1
    <3> QED
      BY <3>2, <3>3 DEF public_key_bytes, EphemeralKey
  <2>6. \A f, g \in log' :
          f.frame.envelope.sealed.kem_enc = g.frame.envelope.sealed.kem_enc => f = g
    BY <2>1, <2>5 DEF StoreInv, LogInv
  <2>7. Own(e) => RouteOf(e) \in Routes /\ e.params.counter < counter'[RouteOf(e)]
    BY <1>1, <1>2, <2>1
  <2>8. ASSUME NEW f \in log, Own(e), Own(f), RouteOf(e) = RouteOf(f)
        PROVE  e.params.counter # f.params.counter
    <3>1. f.params.counter < counter[route] /\ e.params.counter = counter[route]
      BY <2>1, <2>8 DEF StoreInv, CounterInv
    <3>2. counter[route] \in Nat
      BY <1>1
    <3> QED
      BY <3>1, <3>2
  <2>9. CounterInv'
    <3>1. \A f \in log' : Own(f) => RouteOf(f) \in Routes /\ f.params.counter < counter'[RouteOf(f)]
      BY <1>5, <2>1, <2>7
    <3>2. \A f, g \in log' : /\ Own(f) /\ Own(g) /\ RouteOf(f) = RouteOf(g)
                             /\ f.params.counter = g.params.counter
                             => f = g
      BY <2>1, <2>8 DEF StoreInv, CounterInv
    <3> QED
      BY <3>1, <3>2 DEF CounterInv
  <2> QED
    BY <1>3, <2>3, <2>4, <2>6, <2>9 DEF StoreInv, LogInv
<1> QED
  BY <1>6, <1>7 DEF Seals, Grows

\* What the relay holds stays as it is when nothing is sealed; keys only get older.
LEMMA OthersKeep ==
  ASSUME StoreInv, UNCHANGED <<log, seals, counter>>,
         \/ UNCHANGED <<epoch, now>>
         \/ \E n \in Nodes : Rotate(n)
         \/ Tick
  PROVE  StoreInv'
<1>1. \A n \in Nodes : epoch[n] \in Nat /\ epoch'[n] \in Nat /\ epoch[n] <= epoch'[n]
  BY DEF StoreInv, Clocks, Rotate, Tick
<1>2. Clocks'
  <2>1. CASE UNCHANGED <<epoch, now>>
    BY <2>1 DEF StoreInv, Clocks
  <2>2. ASSUME NEW n \in Nodes, Rotate(n) PROVE Clocks'
    <3>1. epoch' = [epoch EXCEPT ![n] = epoch[n] + 1] /\ epoch[n] < MaxEpoch[n] /\ now' = now
      BY <2>2 DEF Rotate
    <3>2. epoch \in [Nodes -> Nat] /\ MaxEpoch[n] \in Nat
      BY MessagingAssumption DEF StoreInv, Clocks
    <3>3. epoch' \in [Nodes -> Nat] /\ epoch'[n] \in 0 .. MaxEpoch[n]
          /\ \A x \in Nodes : x # n => epoch'[x] = epoch[x]
      BY <3>1, <3>2
    <3> QED
      BY <3>1, <3>3 DEF StoreInv, Clocks
  <2>3. CASE Tick
    BY <2>3, MessagingAssumption DEF StoreInv, Clocks, Tick, U64
  <2> QED
    BY <2>1, <2>2, <2>3
<1>3. \A e \in log : e.params.sender_epoch <= epoch'[e.params.sender]
  <2> SUFFICES ASSUME NEW e \in log PROVE e.params.sender_epoch <= epoch'[e.params.sender]
    OBVIOUS
  <2>1. e.params.sender_epoch <= epoch[e.params.sender]
    BY DEF StoreInv, LogInv
  <2>2. PICK k \in 0 .. seals - 1 : EntryType(e, k)
    BY DEF StoreInv, LogInv
  <2>3. e.params.sender \in Nodes /\ e.params.sender_epoch \in Nat
    BY <2>2 DEF EntryType, ParamsType
  <2> QED
    BY <1>1, <2>1, <2>3
<1> QED
  BY <1>2, <1>3 DEF StoreInv, LogInv, CounterInv

\* What the relay holds, always.
THEOREM RelayHoldsOnlySealed == Spec => []StoreInv
<1>1. Init => StoreInv
  <2> SUFFICES ASSUME Init PROVE StoreInv
    OBVIOUS
  <2>1. MaxSeals \in Nat /\ MaxNow \in Nat \ {0} /\ \A n \in Nodes : MaxEpoch[n] \in Nat
    BY MessagingAssumption DEF U64
  <2>2. Clocks
    BY <2>1 DEF Init, Clocks
  <2> QED
    BY <2>2 DEF Init, StoreInv, LogInv, CounterInv
<1>2. StoreInv /\ [Next]_vars => StoreInv'
  <2> SUFFICES ASSUME StoreInv, [Next]_vars PROVE StoreInv'
    OBVIOUS
  <2>1. StepKind
    BY NextKind DEF StoreInv
  <2>2. ASSUME NEW n \in Nodes, NEW frame \in Presentable, Receive(n, frame) PROVE StoreInv'
    <3>1. UNCHANGED <<log, seals, counter, epoch, now>>
      BY <2>2 DEF Receive
    <3> QED
      BY <3>1, OthersKeep
  <2>3. ASSUME NEW n \in Nodes, NEW kind \in Kinds, Register(n, kind) PROVE StoreInv'
    BY <2>3, OthersKeep DEF Register
  <2>4. ASSUME NEW n \in Nodes, Rotate(n) PROVE StoreInv'
    <3>1. UNCHANGED <<log, seals, counter>>
      BY <2>4 DEF Rotate
    <3> QED
      BY <2>4, <3>1, OthersKeep
  <2>5. CASE Tick
    <3>1. UNCHANGED <<log, seals, counter>>
      BY <2>5 DEF Tick
    <3> QED
      BY <2>5, <3>1, OthersKeep
  <2>6. CASE UNCHANGED vars
    BY <2>6, OthersKeep DEF vars
  <2> QED
    BY <2>1, <2>2, <2>3, <2>4, <2>5, <2>6, SealsKeeps DEF StepKind
<1> QED
  BY <1>1, <1>2, PTL DEF Spec
-----------------------------------------------------------------------------
(***************************************************************************)
(* What passes the cryptographic checks.                                   *)
(***************************************************************************)

\* What resolve_sender_pub finds for an envelope's sender.
PubOf(env) == Resolve(env.sender, env.sender_epoch)

\* An envelope that passes them names a node and a key it has or had.
LEMMA GenuineSender ==
  ASSUME NEW rsk, NEW env, Genuine(rsk, env, PubOf(env))
  PROVE  /\ env.sender \in Nodes /\ env.sender_epoch <= epoch[env.sender]
         /\ PubOf(env)[1] = public_key_bytes(SecretKey(env.sender, env.sender_epoch))
<1>1. PubOf(env) # <<>> /\ PubOf(env)[1] # BadPoint
  BY DEF Genuine, g1_subgroup_check
<1>2. env.sender \notin Unsound
  BY <1>1 DEF PubOf, Resolve
<1> QED
  BY <1>1, <1>2 DEF PubOf, Resolve

\* The key an envelope opens with tells who sealed it, to whom and with what.
LEMMA GenuineKey ==
  ASSUME NEW rsk, NEW env, NEW pub, Genuine(rsk, env, pub), NEW p, NEW esk,
         env.sealed.ciphertext.okm
           = kdf(auth_encap_secret(esk, p.sender_sk, p.recipient_pub), public_key_bytes(esk),
                 public_key_bytes(p.sender_sk), p.recipient_pub)
  PROVE  /\ env.sealed.kem_enc = public_key_bytes(esk)
         /\ pub[1] = public_key_bytes(p.sender_sk)
         /\ p.recipient_pub = public_key_bytes(rsk)
  BY DEF Genuine, OpeningKey, kdf

\* Of what was sent only what was sealed for this key, in the sender's own name.
LEMMA GenuineSent ==
  ASSUME StoreInv, NEW n \in Nodes, NEW e \in log,
         Genuine(CurrentKey(n), e.frame.envelope, PubOf(e.frame.envelope))
  PROVE  SealedFor(n, e) /\ Own(e)
<1> DEFINE env == e.frame.envelope
           p == e.params
<1>1. PICK k \in 0 .. seals - 1 : EntryType(e, k)
  BY DEF StoreInv, LogInv
<1>2. SealedAs(env, p, EphemeralKey(k), InnerOf(env)) /\ ParamsType(p) /\ MadeSo(e)
  BY <1>1 DEF EntryType
<1>3. /\ env.sealed.kem_enc = public_key_bytes(EphemeralKey(k))
      /\ PubOf(env)[1] = public_key_bytes(p.sender_sk)
      /\ p.recipient_pub = public_key_bytes(CurrentKey(n))
  <2>1. env.sealed.ciphertext.okm
          = kdf(auth_encap_secret(EphemeralKey(k), p.sender_sk, p.recipient_pub),
                public_key_bytes(EphemeralKey(k)), public_key_bytes(p.sender_sk), p.recipient_pub)
    BY <1>2 DEF SealedAs
  <2> HIDE DEF env, p
  <2> QED
    BY <2>1, GenuineKey DEF env
<1>4. p.sender_sk = SecretKey(p.sender, p.sender_epoch)
  <2>1. PubOf(env)[1] = public_key_bytes(SecretKey(p.sender, p.sender_epoch))
    BY <1>2, GenuineSender DEF SealedAs
  <2> QED
    BY <1>3, <2>1 DEF public_key_bytes
<1>5. e.made # "impersonated"
  BY <1>2, <1>4 DEF MadeSo, SecretKey
<1>6. /\ InnerOf(env) # Malformed /\ verify(PubOf(env)[1], env, InnerOf(env))
      /\ InnerOf(env).message_type = p.message_type
  BY <1>2 DEF Genuine, SealedAs
<1>7. e.made # "garbled" /\ e.made # "mislabelled"
  BY <1>2, <1>6 DEF MadeSo
<1>8. e.made # "forwarded"
  <2>1. SignedKey(InnerOf(env)) = env.sealed.kem_enc
    BY <1>6, VerifiedKey
  <2> QED
    BY <1>2, <2>1 DEF MadeSo
<1>9. Own(e)
  BY <1>2, <1>5, <1>7, <1>8 DEF MadeSo, Own
<1> QED
  BY <1>3, <1>9 DEF SealedFor

\* And all of that.
LEMMA OwnGenuine ==
  ASSUME StoreInv, NEW n \in Nodes, NEW e \in log, Own(e), SealedFor(n, e)
  PROVE  Genuine(CurrentKey(n), e.frame.envelope, PubOf(e.frame.envelope))
<1> DEFINE env == e.frame.envelope
           p == e.params
           inner == InnerOf(env)
<1>1. PICK k \in 0 .. seals - 1 : EntryType(e, k)
  BY DEF StoreInv, LogInv
<1>2. SealedAs(env, p, EphemeralKey(k), inner) /\ ParamsType(p) /\ OwnShape(e)
  BY <1>1 DEF EntryType, MadeSo
<1>3. /\ p.sender \in Nodes /\ p.sender_epoch <= epoch[p.sender]
      /\ p.sender_sk = SecretKey(p.sender, p.sender_epoch)
  BY <1>2 DEF StoreInv, LogInv, ParamsType, OwnShape
<1>4. PubOf(env) = <<public_key_bytes(p.sender_sk)>>
  <2>1. p.sender \notin Unsound /\ env.sender = p.sender /\ env.sender_epoch = p.sender_epoch
    BY <1>2, <1>3, MessagingAssumption DEF SealedAs
  <2> QED
    BY <1>3, <2>1 DEF PubOf, Resolve
<1>5. PubOf(env) # <<>> /\ PubOf(env)[1] = public_key_bytes(p.sender_sk)
  BY <1>4
<1>6. env.sealed.kem_enc = public_key_bytes(EphemeralKey(k))
  BY <1>2 DEF SealedAs
<1>7. g1_subgroup_check(env.sealed.kem_enc) /\ g1_subgroup_check(PubOf(env)[1])
  <2>1. ASSUME NEW sk PROVE public_key_bytes(sk) # BadPoint
    BY DEF public_key_bytes, BadPoint
  <2> HIDE DEF env
  <2> QED
    BY <1>5, <1>6, <2>1 DEF g1_subgroup_check
<1>8. env.sealed.ciphertext # Malformed /\ env.sealed.ciphertext.aad = header_bytes(env)
  BY <1>2 DEF SealedAs
<1>9. env.sealed.ciphertext.okm = OpeningKey(CurrentKey(n), PubOf(env)[1], env)
  <2>1. p.recipient_pub = public_key_bytes(CurrentKey(n))
    BY DEF SealedFor
  <2>2. auth_decap_secret(CurrentKey(n), public_key_bytes(p.sender_sk), public_key_bytes(EphemeralKey(k)))
          = auth_encap_secret(EphemeralKey(k), p.sender_sk, public_key_bytes(CurrentKey(n)))
    BY SharedSecret
  <2>3. env.sealed.ciphertext.okm
          = kdf(auth_encap_secret(EphemeralKey(k), p.sender_sk, p.recipient_pub),
                public_key_bytes(EphemeralKey(k)), public_key_bytes(p.sender_sk), p.recipient_pub)
    BY <1>2 DEF SealedAs
  <2> HIDE DEF env, p
  <2> QED
    BY <1>5, <1>6, <2>1, <2>2, <2>3 DEF OpeningKey
<1>10. /\ inner # Malformed /\ verify(PubOf(env)[1], env, inner)
       /\ inner.message_type = env.message_type /\ inner.correlation_id = env.correlation_id
  <2>1. PICK c : WrittenAs(inner, p, c)
    BY <1>2 DEF OwnShape
  <2>2. inner # Malformed /\ inner.correlation_id = p.correlation_id
    BY <2>1 DEF WrittenAs
  <2>3. verify(public_key_bytes(p.sender_sk), env, inner) /\ inner.message_type = p.message_type
    BY <1>2 DEF OwnShape
  <2> QED
    BY <1>2, <1>5, <2>2, <2>3 DEF SealedAs
<1> HIDE DEF env, inner
<1> QED
  BY <1>5, <1>7, <1>8, <1>9, <1>10 DEF Genuine, env, inner

\* Two envelopes with the same fields are the same.
LEMMA SameEnvelope ==
  ASSUME NEW a, NEW b, IsEnvelope(a), IsEnvelope(b), SameHeader(a, b),
         a.stream \in StreamOptions, b.stream \in StreamOptions,
         a.sealed.kem_enc = b.sealed.kem_enc, a.sealed.ciphertext = b.sealed.ciphertext
  PROVE  a = b
<1>1. a.stream = b.stream
  BY OptionInjective DEF SameHeader
<1>2. a.sealed = b.sealed
  BY DEF IsEnvelope
<1>3. /\ a.version = b.version /\ a.message_type = b.message_type /\ a.flags = b.flags
      /\ a.correlation_id = b.correlation_id /\ a.sender = b.sender
      /\ a.recipient = b.recipient /\ a.sender_epoch = b.sender_epoch
  BY DEF SameHeader
<1> QED
  BY <1>1, <1>2, <1>3 DEF IsEnvelope

\* The relay changed the header or the encapsulated key, or put in another sealed
\* ciphertext.
AlteredAs(env, old) ==
  /\ IsEnvelope(env) /\ env.stream \in StreamOptions
  /\ \/ env.sealed = old.sealed
     \/ /\ env.sealed.ciphertext = old.sealed.ciphertext /\ header_bytes(env) = header_bytes(old)
     \/ /\ env.sealed.kem_enc = old.sealed.kem_enc /\ header_bytes(env) = header_bytes(old)
        /\ \/ env.sealed.ciphertext = Malformed
           \/ \E f \in log : env.sealed.ciphertext = f.frame.envelope.sealed.ciphertext

\* The header of an entry, and the ones it may be replaced by.
LEMMA StreamsKnown ==
  ASSUME StoreInv
  PROVE  /\ Headers \cup {NoStream} \subseteq StreamOptions
         /\ \A m \in Messages : m.stream \in StreamOptions
         /\ \A e \in log : IsEnvelope(e.frame.envelope)
                           /\ e.frame.envelope.stream \in Headers \cup {NoStream}
<1>1. Headers \subseteq [frame : Nat, seq : Nat, window : Nat]
  BY DEF Headers, KnownFrames, U64, U32, OPEN, RESET
<1>2. Headers \cup {NoStream} \subseteq StreamOptions
  BY <1>1 DEF StreamOptions
<1>3. \A m \in Messages : m.stream \in StreamOptions
  BY <1>2, MessagingAssumption
<1>4. ASSUME NEW e \in log
      PROVE  IsEnvelope(e.frame.envelope) /\ e.frame.envelope.stream \in Headers \cup {NoStream}
  <2>1. PICK k \in 0 .. seals - 1 : EntryType(e, k)
    BY DEF StoreInv, LogInv
  <2> QED
    BY <2>1 DEF EntryType, ParamsType, SealedAs
<1> QED
  BY <1>2, <1>3, <1>4

\* Every way to alter an envelope is one of those.
LEMMA AlteredShape ==
  ASSUME StoreInv, NEW e \in log, NEW env \in Altered(e.frame.envelope)
  PROVE  AlteredAs(env, e.frame.envelope)
<1> DEFINE old == e.frame.envelope
<1>1. IsEnvelope(old) /\ old.stream \in Headers \cup {NoStream} /\ old.stream \in StreamOptions
  BY StreamsKnown
<1> HIDE DEF old
<1>2. ASSUME NEW v, env = [old EXCEPT !.version = v] PROVE AlteredAs(env, old)
  BY <1>1, <1>2 DEF IsEnvelope, AlteredAs
<1>3. ASSUME NEW v, env = [old EXCEPT !.message_type = v] PROVE AlteredAs(env, old)
  BY <1>1, <1>3 DEF IsEnvelope, AlteredAs
<1>4. ASSUME NEW v, env = [old EXCEPT !.flags = v] PROVE AlteredAs(env, old)
  BY <1>1, <1>4 DEF IsEnvelope, AlteredAs
<1>5. ASSUME NEW v, env = [old EXCEPT !.correlation_id = v] PROVE AlteredAs(env, old)
  BY <1>1, <1>5 DEF IsEnvelope, AlteredAs
<1>6. ASSUME NEW v, env = [old EXCEPT !.sender = v] PROVE AlteredAs(env, old)
  BY <1>1, <1>6 DEF IsEnvelope, AlteredAs
<1>7. ASSUME NEW v, env = [old EXCEPT !.recipient = v] PROVE AlteredAs(env, old)
  BY <1>1, <1>7 DEF IsEnvelope, AlteredAs
<1>8. ASSUME NEW v, env = [old EXCEPT !.sender_epoch = v] PROVE AlteredAs(env, old)
  BY <1>1, <1>8 DEF IsEnvelope, AlteredAs
<1>9. ASSUME NEW v \in StreamOptions, env = [old EXCEPT !.stream = v] PROVE AlteredAs(env, old)
  BY <1>1, <1>9 DEF IsEnvelope, AlteredAs
<1>10. ASSUME old.stream # NoStream, env = [old EXCEPT !.stream.window = @ + 1]
       PROVE  AlteredAs(env, old)
  <2>1. old.stream \in [frame : Nat, seq : Nat, window : Nat]
    BY <1>1, <1>10 DEF StreamOptions
  <2>2. [old.stream EXCEPT !.window = @ + 1] \in [frame : Nat, seq : Nat, window : Nat]
    BY <2>1
  <2>3. env = [old EXCEPT !.stream = [old.stream EXCEPT !.window = @ + 1]]
    BY <1>10
  <2> QED
    BY <1>9, <2>2, <2>3 DEF StreamOptions
<1>11. ASSUME NEW v, env = [old EXCEPT !.sealed.kem_enc = v] PROVE AlteredAs(env, old)
  <2>1. /\ IsEnvelope(env) /\ env.sealed.ciphertext = old.sealed.ciphertext
        /\ env.version = old.version /\ env.message_type = old.message_type
        /\ env.flags = old.flags /\ env.correlation_id = old.correlation_id
        /\ env.sender = old.sender /\ env.recipient = old.recipient
        /\ env.sender_epoch = old.sender_epoch /\ env.stream = old.stream
    BY <1>1, <1>11 DEF IsEnvelope
  <2>2. header_bytes(env) = header_bytes(old)
    BY <2>1, Zenon DEF header_bytes
  <2> QED
    BY <1>1, <2>1, <2>2 DEF AlteredAs
<1>12. ASSUME NEW v, env = [old EXCEPT !.sealed.ciphertext = v],
              v = Malformed \/ \E f \in log : v = f.frame.envelope.sealed.ciphertext
       PROVE  AlteredAs(env, old)
  <2>1. /\ IsEnvelope(env) /\ env.sealed.kem_enc = old.sealed.kem_enc
        /\ env.sealed.ciphertext = v
        /\ env.version = old.version /\ env.message_type = old.message_type
        /\ env.flags = old.flags /\ env.correlation_id = old.correlation_id
        /\ env.sender = old.sender /\ env.recipient = old.recipient
        /\ env.sender_epoch = old.sender_epoch /\ env.stream = old.stream
    BY <1>1, <1>12 DEF IsEnvelope
  <2>2. header_bytes(env) = header_bytes(old)
    BY <2>1, Zenon DEF header_bytes
  <2> QED
    BY <1>1, <1>12, <2>1, <2>2 DEF AlteredAs
<1>13. env \in Altered(old)
  BY DEF old
<1>14. ASSUME NEW m \in Messages PROVE m.stream \in StreamOptions
  BY StreamsKnown
<1>15. ASSUME NEW v \in {Malformed} \cup {f.sealed.ciphertext : f \in Sent}
       PROVE  v = Malformed \/ \E f \in log : v = f.frame.envelope.sealed.ciphertext
  BY DEF Sent
<1>16. AlteredAs(env, old)
  BY <1>2, <1>3, <1>4, <1>5, <1>6, <1>7, <1>8, <1>9, <1>10, <1>11, <1>12, <1>13, <1>14, <1>15, ZenonT(40)
     DEF Altered
<1> QED
  BY <1>16 DEF old

\* An altered envelope that passes the checks is one that was sent after all.
LEMMA AlteredSent ==
  ASSUME StoreInv, NEW n \in Nodes, NEW f \in log, NEW env \in Altered(f.frame.envelope),
         Genuine(CurrentKey(n), env, PubOf(env))
  PROVE  \E e \in log : e.frame.envelope = env
<1> DEFINE old == f.frame.envelope
           p == f.params
<1>1. PICK k \in 0 .. seals - 1 : EntryType(f, k)
  BY DEF StoreInv, LogInv
<1>2. SealedAs(old, p, EphemeralKey(k), InnerOf(old)) /\ IsEnvelope(old)
  BY <1>1 DEF EntryType
<1>3. AlteredAs(env, old) /\ old.stream \in StreamOptions
  BY AlteredShape, StreamsKnown
<1>4. /\ env.sealed.ciphertext # Malformed
      /\ env.sealed.ciphertext.aad = header_bytes(env)
      /\ old.sealed.ciphertext.aad = header_bytes(old)
  BY <1>2 DEF Genuine, SealedAs
<1> HIDE DEF old
<1>5. ASSUME NEW g \in log, env.sealed.ciphertext = g.frame.envelope.sealed.ciphertext
      PROVE  env.sealed.kem_enc = g.frame.envelope.sealed.kem_enc
  <2> DEFINE q == g.params
             c == g.frame.envelope.sealed.ciphertext
  <2>1. PICK i \in 0 .. seals - 1 : EntryType(g, i)
    BY DEF StoreInv, LogInv
  <2>2. /\ g.frame.envelope.sealed.kem_enc = public_key_bytes(EphemeralKey(i))
        /\ c.okm = kdf(auth_encap_secret(EphemeralKey(i), q.sender_sk, q.recipient_pub),
                       public_key_bytes(EphemeralKey(i)), public_key_bytes(q.sender_sk),
                       q.recipient_pub)
    BY <2>1 DEF EntryType, SealedAs
  <2>3. env.sealed.ciphertext.okm
          = kdf(auth_encap_secret(EphemeralKey(i), q.sender_sk, q.recipient_pub),
                public_key_bytes(EphemeralKey(i)), public_key_bytes(q.sender_sk), q.recipient_pub)
    BY <1>5, <2>2
  <2> HIDE DEF q, c
  <2>4. env.sealed.kem_enc = public_key_bytes(EphemeralKey(i))
    BY <2>3, GenuineKey
  <2> QED
    BY <2>2, <2>4
<1>6. env.sealed.ciphertext = old.sealed.ciphertext /\ env.sealed.kem_enc = old.sealed.kem_enc
  <2>1. CASE env.sealed = old.sealed
    BY <2>1
  <2>2. CASE env.sealed.ciphertext = old.sealed.ciphertext
    BY <1>5, <2>2 DEF old
  <2>3. ASSUME env.sealed.kem_enc = old.sealed.kem_enc,
               NEW g \in log, env.sealed.ciphertext = g.frame.envelope.sealed.ciphertext
        PROVE  env.sealed.ciphertext = old.sealed.ciphertext
    <3>1. g.frame.envelope.sealed.kem_enc = f.frame.envelope.sealed.kem_enc
      BY <1>5, <2>3 DEF old
    <3>2. g = f
      BY <3>1 DEF StoreInv, LogInv
    <3> QED
      BY <2>3, <3>2 DEF old
  <2> QED
    BY <1>3, <1>4, <2>1, <2>2, <2>3 DEF AlteredAs
<1>7. header_bytes(env) = header_bytes(old)
  BY <1>4, <1>6
<1>8. SameHeader(env, old)
  BY <1>7, HeaderInjective
<1>9. env = old
  BY <1>2, <1>3, <1>6, <1>8, SameEnvelope DEF AlteredAs
<1> QED
  BY <1>9 DEF old

\* An envelope the relay presents passes the checks only if it was sent as it is, to
\* this node and in its sender's own name.
LEMMA PresentedGenuine ==
  ASSUME StoreInv, NEW n \in Nodes, NEW frame \in Presentable, frame.envelope # Malformed,
         Genuine(CurrentKey(n), frame.envelope, PubOf(frame.envelope))
  PROVE  \E e \in log : e.frame.envelope = frame.envelope /\ SealedFor(n, e) /\ Own(e)
<1> DEFINE env == frame.envelope
<1>1. \E e \in log : e.frame.envelope = env
  <2>1. CASE frame \in {[len |-> 0, envelope |-> Malformed],
                        [len |-> MAX_ENVELOPE_BYTES + 1, envelope |-> Malformed]}
    BY <2>1
  <2>2. CASE frame \in {[len |-> FIXED_BYTES, envelope |-> x] : x \in UNION {Altered(s) : s \in Sent}}
    <3>1. PICK s \in Sent : env \in Altered(s)
      BY <2>2
    <3>2. PICK f \in log : s = f.frame.envelope
      BY DEF Sent
    <3>3. env \in Altered(f.frame.envelope)
      BY <3>1, <3>2
    <3> HIDE DEF env
    <3> QED
      BY <3>3, AlteredSent DEF env
  <2>3. CASE frame \in {e.frame : e \in log}
    BY <2>3
  <2> QED
    BY <2>1, <2>2, <2>3 DEF Presentable
<1>2. PICK e \in log : e.frame.envelope = env
  BY <1>1
<1>3. Genuine(CurrentKey(n), e.frame.envelope, PubOf(e.frame.envelope))
  BY <1>2
<1>4. SealedFor(n, e) /\ Own(e)
  BY <1>3, GenuineSent
<1> QED
  BY <1>2, <1>4

\* The cryptographic checks of open_message pass exactly the envelopes that the
\* holder of the sender's key sealed and signed for this node, with no field changed.
THEOREM AuthenticExactlyHolds == Spec => []AuthenticExactly
<1>1. StoreInv => AuthenticExactly
  <2> SUFFICES ASSUME StoreInv, NEW n \in Nodes,
                      NEW env \in {f.envelope : f \in Presentable} \ {Malformed}
               PROVE  Authenticated(CurrentKey(n), env, PubOf(env)).ok
                        <=> \E e \in log : e.frame.envelope = env /\ SealedFor(n, e) /\ Own(e)
    BY DEF AuthenticExactly, PubOf, Own
  <2>1. PICK frame \in Presentable : frame.envelope = env
    OBVIOUS
  <2>2. Authenticated(CurrentKey(n), env, PubOf(env)).ok <=> Genuine(CurrentKey(n), env, PubOf(env))
    <3>1. /\ Genuine(CurrentKey(n), env, PubOf(env)) =>
               Authenticated(CurrentKey(n), env, PubOf(env)) = Ok(InnerOf(env))
          /\ ~Genuine(CurrentKey(n), env, PubOf(env)) =>
               Authenticated(CurrentKey(n), env, PubOf(env)).ok = FALSE
      BY AuthenticatedOk
    <3>2. Ok(InnerOf(env)).ok
      BY DEF Ok
    <3> QED
      BY <3>1, <3>2
  <2>3. Genuine(CurrentKey(n), env, PubOf(env)) =>
          \E e \in log : e.frame.envelope = env /\ SealedFor(n, e) /\ Own(e)
    BY <2>1, PresentedGenuine
  <2>4. ASSUME NEW e \in log, e.frame.envelope = env, SealedFor(n, e), Own(e)
        PROVE  Genuine(CurrentKey(n), env, PubOf(env))
    BY <2>4, OwnGenuine
  <2> QED
    BY <2>2, <2>3, <2>4
<1> QED
  BY <1>1, RelayHoldsOnlySealed, PTL
-----------------------------------------------------------------------------
(***************************************************************************)
(* What a node makes of a frame.                                           *)
(***************************************************************************)

\* The guard of node n was advanced for an envelope, evicting E.
LetsIn(n, env, E, r) ==
  env # Malformed /\ LetIn(CurrentKey(n), env, PubOf(env), guard[n], now, E, r)

\* decode_envelope and open_message refuse a frame and leave the guard alone, or
\* open_message advances it.
LEMMA OpenedShape ==
  ASSUME NEW n, NEW frame, NEW r \in Opened(n, frame)
  PROVE  \/ r.result.ok = FALSE /\ r.guard = guard[n]
         \/ \E E \in SUBSET DOMAIN guard[n] : LetsIn(n, frame.envelope, E, r)
<1> DEFINE env == frame.envelope
           decoded == decode_envelope(frame)
<1>1. CASE ~decoded.ok
  <2>1. r = [result |-> decoded, guard |-> guard[n]]
    BY <1>1 DEF Opened
  <2>2. decoded.ok = FALSE
    BY <1>1 DEF decode_envelope, Err, Ok
  <2> QED
    BY <2>1, <2>2
<1>2. CASE decoded.ok
  <2>1. env # Malformed /\ decoded = Ok(env)
    BY <1>2 DEF decode_envelope, Err
  <2>2. decoded.value = env
    BY <2>1 DEF Ok
  <2>3. r \in open_message(CurrentKey(n), env, PubOf(env), guard[n], now)
    BY <1>2, <2>2 DEF Opened, PubOf
  <2> HIDE DEF env, decoded
  <2>4. \/ Turned(CurrentKey(n), env, PubOf(env), guard[n], now, r)
        \/ \E E \in SUBSET DOMAIN guard[n] :
             LetIn(CurrentKey(n), env, PubOf(env), guard[n], now, E, r)
    BY <2>3, OpenShape
  <2> QED
    BY <2>1, <2>4 DEF Turned, LetsIn, env
<1> QED
  BY <1>1, <1>2

\* What is opened has the length its sender declared, within the cap: of every
\* entry of the log, and so of everything that is handed on.
THEOREM DeliveredWithinCapHolds == Spec => []DeliveredWithinCap
<1>1. ASSUME StoreInv, NEW n \in Nodes, NEW e \in log, NEW r \in Opened(n, e.frame), r.result.ok
      PROVE  LET inner == e.frame.envelope.sealed.ciphertext.plaintext
                 len == ByteLen(r.result.value.payload)
             IN  len = inner.uncompressed_len /\ len <= MAX_DECOMPRESSED_BYTES
  <2> DEFINE env == e.frame.envelope
             inner == InnerOf(env)
  <2>1. PICK E \in SUBSET DOMAIN guard[n] : LetsIn(n, env, E, r)
    BY <1>1, OpenedShape
  <2>2. inner # Malformed
    BY <2>1 DEF LetsIn, LetIn, Genuine
  <2>3. PICK k \in 0 .. seals - 1 : EntryType(e, k)
    BY <1>1 DEF StoreInv, LogInv
  <2>4. inner.payload \in Bytes /\ inner.uncompressed_len \in U32
    BY <2>2, <2>3 DEF EntryType, MadeSo
  <2>5. /\ Decompressed(inner).ok
        /\ r.result.value = OpenedMessage(env, inner, Decompressed(inner).value)
    BY <1>1, <2>1 DEF LetsIn, LetIn
  <2>6. r.result.value.payload = Decompressed(inner).value
    BY <2>5 DEF OpenedMessage
  <2> HIDE DEF inner
  <2>7. /\ ByteLen(Decompressed(inner).value) = inner.uncompressed_len
        /\ inner.uncompressed_len <= MAX_DECOMPRESSED_BYTES
    BY <2>4, <2>5, DecompressedLength
  <2> QED
    BY <2>6, <2>7 DEF inner, InnerOf
<1>2. StoreInv => DeliveredWithinCap
  BY <1>1 DEF DeliveredWithinCap
<1> QED
  BY <1>2, RelayHoldsOnlySealed, PTL

\* A message that is dropped silently was sealed as a one-shot or a response: the
\* shape is the sender's, and dispatch answers requests and stream frames.
THEOREM SilentOnlyIfOneWayHolds == Spec => []SilentOnlyIfOneWay
<1>1. ASSUME StoreInv, NEW n \in Nodes, NEW e \in log, NEW r \in Opened(n, e.frame),
             r.result.ok, Dispatched(n, r.result.value) = "Dropped"
      PROVE  e.params.shape \in {"OneShot", "Response"}
  <2> DEFINE env == e.frame.envelope
             inner == InnerOf(env)
  <2>1. PICK E \in SUBSET DOMAIN guard[n] : LetsIn(n, env, E, r)
    BY <1>1, OpenedShape
  <2>2. r.result.value.shape = from_flags(env.flags)
    BY <1>1, <2>1 DEF LetsIn, LetIn, OpenedMessage
  <2>3. PICK k \in 0 .. seals - 1 : EntryType(e, k)
    BY <1>1 DEF StoreInv, LogInv
  <2>4. env.flags = SealedFlags(e.params.shape) /\ e.params.shape \in Shapes
    BY <2>3 DEF EntryType, SealedAs, ParamsType
  <2>5. r.result.value.shape = e.params.shape
    BY <2>2, <2>4, FlagsRoundTrip
  <2>6. UnknownType(r.result.value.shape) = "Dropped"
    BY <1>1 DEF Dispatched, dispatch
  <2>7. r.result.value.shape \notin {"Request", "StreamFrame"}
    BY <2>6 DEF UnknownType
  <2>8. Shapes = {"OneShot", "Request", "Response", "StreamFrame"}
    BY DEF Shapes, ShapeOrder
  <2> QED
    BY <2>4, <2>5, <2>7, <2>8
<1>2. StoreInv => SilentOnlyIfOneWay
  BY <1>1 DEF SilentOnlyIfOneWay
<1> QED
  BY <1>2, RelayHoldsOnlySealed, PTL
-----------------------------------------------------------------------------
(***************************************************************************)
(* What a node keeps: its guard, its registry, what it let in and handled. *)
(***************************************************************************)

\* What n let in was sent, to n and in its sender's own name.
SentTo(n, env) == \E e \in log : e.frame.envelope = env /\ Own(e) /\ e.params.recipient = n

GuardType(g) == \A k \in DOMAIN g : g[k] \in Windows /\ g[k].started

RegistryType(reg) == \A t \in DOMAIN reg : reg[t] \in Kinds /\ reg[t].type_id = t

\* What n's handlers were run on was let in, and handled by the one handler of its type.
HandledType(n, bag) ==
  \A x \in DOMAIN bag : /\ x.envelope \in admitted[n]
                        /\ x.message_type \in DOMAIN registry[n]
                        /\ registry[n][x.message_type].handler = x.handler

Tables == /\ DOMAIN guard = Nodes /\ DOMAIN registry = Nodes
          /\ DOMAIN admitted = Nodes /\ DOMAIN handled = Nodes

NodeInv ==
  /\ Tables
  /\ \A n \in Nodes : /\ GuardType(guard[n]) /\ RegistryType(registry[n])
                      /\ \A env \in admitted[n] : SentTo(n, env)
                      /\ HandledType(n, handled[n])

\* The record of a handler that was run on an envelope.
Run(n, env, type) ==
  [envelope |-> env, message_type |-> type, handler |-> registry[n][type].handler]

\* Node n, and no other, adds the record of a handler that was run.
RunsHandler(n, env, r) ==
  LET type == r.result.value.message_type
  IN  /\ r.result.ok /\ type \in DOMAIN registry[n]
      /\ handled' = [handled EXCEPT ![n] = @ (+) SetToBag({Run(n, env, type)})]

\* A node lets an envelope in.
Admitting(n, env, r) ==
  /\ \E E \in SUBSET DOMAIN guard[n] : LetsIn(n, env, E, r)
  /\ guard' = [guard EXCEPT ![n] = r.guard]
  /\ admitted' = [admitted EXCEPT ![n] = @ \cup {env}]
  /\ handled' = handled \/ RunsHandler(n, env, r)

\* A node takes no notice of a frame.
Ignoring ==
  /\ DOMAIN guard' = DOMAIN guard /\ \A m \in DOMAIN guard : guard'[m] = guard[m]
  /\ admitted' = admitted /\ handled' = handled

\* A frame is ignored, or its envelope is let in.
LEMMA ReceiveShape ==
  ASSUME NEW n \in Nodes, NEW frame, Receive(n, frame)
  PROVE  /\ UNCHANGED <<log, seals, counter, epoch, registry, now>>
         /\ Ignoring \/ \E r : Admitting(n, frame.envelope, r)
<1> DEFINE env == frame.envelope
<1>1. PICK r \in Opened(n, frame) :
        /\ guard' = [guard EXCEPT ![n] = r.guard]
        /\ admitted' = IF r.result.ok \/ r.guard # guard[n]
                         THEN [admitted EXCEPT ![n] = @ \cup {env}] ELSE admitted
        /\ handled' =
             IF r.result.ok /\ Dispatched(n, r.result.value) = "Handled"
               THEN [handled EXCEPT ![n] = @ (+) SetToBag(
                      {[envelope |-> env, message_type |-> r.result.value.message_type,
                        handler |-> registry[n][r.result.value.message_type].handler]})]
               ELSE handled
        /\ UNCHANGED <<log, seals, counter, epoch, registry, now>>
  BY DEF Receive
<1>2. CASE ~(r.result.ok \/ r.guard # guard[n])
  <2>1. Ignoring
    BY <1>1, <1>2 DEF Ignoring
  <2> QED
    BY <1>1, <2>1
<1>3. CASE r.result.ok \/ r.guard # guard[n]
  <2>1. \E E \in SUBSET DOMAIN guard[n] : LetsIn(n, env, E, r)
    BY <1>3, OpenedShape
  <2>2. handled' = handled \/ RunsHandler(n, env, r)
    <3>1. CASE ~(r.result.ok /\ Dispatched(n, r.result.value) = "Handled")
      BY <1>1, <3>1
    <3>2. CASE r.result.ok /\ Dispatched(n, r.result.value) = "Handled"
      <4>1. r.result.value.message_type \in DOMAIN registry[n]
        BY <3>2 DEF Dispatched, dispatch, UnknownType
      <4> QED
        BY <1>1, <3>2, <4>1 DEF RunsHandler, Run
    <3> QED
      BY <3>1, <3>2
  <2>3. Admitting(n, env, r)
    BY <1>1, <1>3, <2>1, <2>2 DEF Admitting
  <2> QED
    BY <1>1, <2>3
<1> QED
  BY <1>2, <1>3

\* A guard whose window for key was advanced by counter c, after the eviction of E.
AdvancedBy(g, E, key, c, ts, new) ==
  /\ GuardType(new)
  /\ DOMAIN new = (DOMAIN g \ E) \cup {key}
  /\ \A k \in DOMAIN g \ E : k # key => new[k] = g[k]
  /\ new[key] = SeenAt(admit(Current(g, key), c), ts)
  /\ admit(Current(g, key), c) \in Windows

\* A window that is advanced stays a window in use: the counters and timestamps of
\* what was sealed are u64.
LEMMA AdvancedGuard ==
  ASSUME NEW g, GuardType(g), NEW E, NEW key, NEW c \in U64, NEW ts \in U64, NEW new,
         Admits(Current(g, key), c), RecordedAs(g, E, key, c, ts, new)
  PROVE  AdvancedBy(g, E, key, c, ts, new)
<1> DEFINE w == Current(g, key)
           v == admit(w, c)
<1>1. Proper(w)
  BY NewWindowProper DEF Current, GuardType, Proper
<1>2. v \in Windows /\ v.started
  BY <1>1, AdmitType
<1>3. SeenAt(v, ts) \in Windows /\ SeenAt(v, ts).started
  BY <1>2, SeenAtFields
<1>4. new = TableAfter(g, E, key, c, ts)
  BY DEF RecordedAs
<1>5. /\ DOMAIN new = (DOMAIN g \ E) \cup {key}
      /\ \A k \in DOMAIN g \ E : k # key => new[k] = g[k]
      /\ new[key] = SeenAt(v, ts)
  BY <1>4 DEF TableAfter
<1>6. GuardType(new)
  BY <1>3, <1>5 DEF GuardType
<1> QED
  BY <1>2, <1>5, <1>6 DEF AdvancedBy

\* An entry in its sender's own name: what is in it, and the keys it was sealed with.
LEMMA OwnEntry ==
  ASSUME StoreInv, NEW e \in log, Own(e)
  PROVE  LET env == e.frame.envelope
             inner == InnerOf(env)
         IN  /\ inner.counter = e.params.counter /\ inner.counter \in U64
             /\ inner.timestamp_ms = e.params.timestamp_ms /\ inner.timestamp_ms \in U64
             /\ inner.expires_at = e.params.expires_at
             /\ env.sender = e.params.sender /\ env.sender \in Nodes
             /\ env.sender_epoch = e.params.sender_epoch /\ env.sender_epoch \in Nat
             /\ env.sender_epoch <= epoch[env.sender]
             /\ e.params.recipient \in Nodes
             /\ \E i \in Nat : e.params.recipient_pub = public_key_bytes(SecretKey(e.params.recipient, i))
<1> DEFINE env == e.frame.envelope
           inner == InnerOf(env)
           p == e.params
<1>1. PICK k \in 0 .. seals - 1 : EntryType(e, k)
  BY DEF StoreInv, LogInv
<1>2. OwnShape(e) /\ ParamsType(p) /\ SealedAs(env, p, EphemeralKey(k), inner)
  BY <1>1 DEF EntryType, MadeSo
<1>3. PICK c : WrittenAs(inner, p, c)
  BY <1>2 DEF OwnShape
<1>4. inner.counter = p.counter /\ inner.timestamp_ms = p.timestamp_ms
      /\ inner.expires_at = p.expires_at
  BY <1>3 DEF WrittenAs
<1>5. p.counter \in U64 /\ p.timestamp_ms \in U64
  <2>1. p.counter \in 0 .. MaxSeals /\ p.timestamp_ms \in 1 .. MaxNow
    BY <1>2 DEF ParamsType
  <2> HIDE DEF p
  <2> QED
    BY <2>1, MessagingAssumption, MachineAssumption DEF U64
<1>6. env.sender = p.sender /\ env.sender_epoch = p.sender_epoch
  BY <1>2 DEF SealedAs
<1>7. p.sender \in Nodes /\ p.sender_epoch \in Nat /\ p.sender_epoch <= epoch[p.sender]
      /\ p.recipient \in Nodes
      /\ \E i \in Nat : p.recipient_pub = public_key_bytes(SecretKey(p.recipient, i))
  BY <1>2 DEF ParamsType, StoreInv, LogInv
<1> HIDE DEF env, inner, p
<1> QED
  BY <1>4, <1>5, <1>6, <1>7 DEF env, inner, p

\* What is sealed for a node's key was addressed to that node.
LEMMA SealedForNode ==
  ASSUME StoreInv, NEW n \in Nodes, NEW e \in log, Own(e), SealedFor(n, e)
  PROVE  e.params.recipient = n
<1>1. PICK i \in Nat : e.params.recipient_pub = public_key_bytes(SecretKey(e.params.recipient, i))
  BY OwnEntry
<1>2. public_key_bytes(SecretKey(e.params.recipient, i)) = public_key_bytes(SecretKey(n, epoch[n]))
  BY <1>1 DEF SealedFor, CurrentKey
<1> QED
  BY <1>2 DEF public_key_bytes, SecretKey

\* Everything a node lets in was sent to it in its sender's own name.
LEMMA LetInWasSent ==
  ASSUME StoreInv, NEW n \in Nodes, NEW frame \in Presentable, NEW E, NEW r,
         LetsIn(n, frame.envelope, E, r)
  PROVE  \E e \in log : /\ e.frame.envelope = frame.envelope /\ Own(e)
                        /\ SealedFor(n, e) /\ e.params.recipient = n
<1>1. frame.envelope # Malformed /\ Genuine(CurrentKey(n), frame.envelope, PubOf(frame.envelope))
  BY DEF LetsIn, LetIn
<1>2. PICK e \in log : e.frame.envelope = frame.envelope /\ SealedFor(n, e) /\ Own(e)
  BY <1>1, PresentedGenuine
<1>3. e.params.recipient = n
  BY <1>2, SealedForNode
<1> QED
  BY <1>2, <1>3

\* A bag with one more copy of x.
LEMMA OneMoreCopy ==
  ASSUME NEW B, NEW x
  PROVE  LET C == B (+) SetToBag({x})
         IN  /\ DOMAIN C = DOMAIN B \cup {x}
             /\ \A y \in DOMAIN B : y # x => C[y] = B[y] + 0
             /\ x \notin DOMAIN B => C[x] = 1
  BY DEF (+), SetToBag

\* A node that lets an envelope in keeps its tables in order.
LEMMA AdmittingKeeps ==
  ASSUME StoreInv, NodeInv, NEW n \in Nodes, NEW frame \in Presentable, NEW r,
         Admitting(n, frame.envelope, r), log' = log, registry' = registry
  PROVE  NodeInv'
<1> DEFINE env == frame.envelope
           inner == InnerOf(env)
<1>1. PICK E \in SUBSET DOMAIN guard[n] : LetsIn(n, env, E, r)
  BY DEF Admitting
<1>2. PICK e \in log : /\ e.frame.envelope = env /\ Own(e)
                       /\ SealedFor(n, e) /\ e.params.recipient = n
  BY <1>1, LetInWasSent
<1>3. inner.counter \in U64 /\ inner.timestamp_ms \in U64
  BY <1>2, OwnEntry
<1>4. /\ guard' = [guard EXCEPT ![n] = r.guard]
      /\ admitted' = [admitted EXCEPT ![n] = @ \cup {env}]
      /\ handled' = handled \/ RunsHandler(n, env, r)
  BY DEF Admitting
<1>5. Tables'
  BY <1>4 DEF NodeInv, Tables, RunsHandler
<1> HIDE DEF inner, env
<1>6. GuardType(r.guard)
  <2>1. /\ Admits(Current(guard[n], KeyOf(env)), inner.counter)
        /\ RecordedAs(guard[n], E, KeyOf(env), inner.counter, inner.timestamp_ms, r.guard)
    BY <1>1 DEF LetsIn, LetIn, Passes, inner
  <2>2. GuardType(guard[n])
    BY DEF NodeInv
  <2> QED
    <3>1. AdvancedBy(guard[n], E, KeyOf(env), inner.counter, inner.timestamp_ms, r.guard)
      BY <1>3, <2>1, <2>2, AdvancedGuard
    <3> QED
      BY <3>1 DEF AdvancedBy
<1>7. ASSUME NEW m \in Nodes
      PROVE  /\ GuardType(guard'[m]) /\ RegistryType(registry'[m])
             /\ admitted'[m] = IF m = n THEN admitted[m] \cup {env} ELSE admitted[m]
  BY <1>4, <1>6 DEF NodeInv, Tables
<1>8. SentTo(n, env)'
  BY <1>2 DEF SentTo
<1>9. ASSUME NEW m \in Nodes, NEW x \in admitted'[m] PROVE SentTo(m, x)'
  <2>1. CASE x \in admitted[m]
    BY <2>1 DEF NodeInv, SentTo
  <2>2. CASE m = n /\ x = env
    BY <1>8, <2>2
  <2> QED
    BY <1>7, <1>9, <2>1, <2>2
<1>10. ASSUME NEW m \in Nodes PROVE HandledType(m, handled[m])'
  <2>1. \A x \in DOMAIN handled[m] :
          /\ x.envelope \in admitted'[m] /\ x.message_type \in DOMAIN registry'[m]
          /\ registry'[m][x.message_type].handler = x.handler
    BY <1>7 DEF NodeInv, HandledType
  <2>2. CASE handled'[m] = handled[m]
    BY <2>1, <2>2 DEF HandledType
  <2>3. CASE handled'[m] # handled[m]
    <3> DEFINE type == r.result.value.message_type
               x == Run(n, env, type)
    <3>1. RunsHandler(n, env, r)
      BY <1>4, <2>3
    <3>2. m = n /\ type \in DOMAIN registry[n] /\ handled'[m] = handled[m] (+) SetToBag({x})
      BY <2>3, <3>1 DEF RunsHandler, NodeInv, Tables
    <3>3. DOMAIN handled'[m] = DOMAIN handled[m] \cup {x}
      BY <3>2, OneMoreCopy
    <3>4. x.envelope = env /\ x.message_type = type /\ x.handler = registry[n][type].handler
      BY DEF Run
    <3> HIDE DEF x, type
    <3>5. env \in admitted'[m]
      BY <1>7, <3>2
    <3> QED
      BY <2>1, <3>2, <3>3, <3>4, <3>5 DEF HandledType
  <2> QED
    BY <2>2, <2>3
<1> QED
  BY <1>5, <1>7, <1>9, <1>10 DEF NodeInv

\* register keeps the handlers there are and enters a kind under its own type.
LEMMA RegisterKeeps ==
  ASSUME NodeInv, NEW n \in Nodes, NEW kind \in Kinds, Register(n, kind)
  PROVE  NodeInv'
<1> DEFINE reg == registry[n]
           new == register(registry[n], kind)
<1>1. registry' = [registry EXCEPT ![n] = new] /\ UNCHANGED <<log, guard, admitted, handled>>
  BY DEF Register
<1>2. RegistryType(reg)
  BY DEF NodeInv
<1>3. /\ RegistryType(new) /\ DOMAIN reg \subseteq DOMAIN new
      /\ \A t \in DOMAIN reg : new[t] = reg[t]
  <2>1. CASE kind.type_id \in DOMAIN reg
    BY <1>2, <2>1 DEF register
  <2>2. CASE kind.type_id \notin DOMAIN reg
    <3>1. new = Insert(reg, kind.type_id, kind)
      BY <2>2 DEF register
    <3> HIDE DEF new
    <3>2. /\ DOMAIN new = DOMAIN reg \cup {kind.type_id}
          /\ \A t \in DOMAIN new : new[t] = IF t = kind.type_id THEN kind ELSE reg[t]
      BY <3>1 DEF Insert
    <3> QED
      BY <1>2, <2>2, <3>2 DEF RegistryType
  <2> QED
    BY <2>1, <2>2
<1> HIDE DEF new
<1>4. Tables'
  BY <1>1 DEF NodeInv, Tables
<1>5. ASSUME NEW m \in Nodes
      PROVE  /\ RegistryType(registry'[m]) /\ DOMAIN registry[m] \subseteq DOMAIN registry'[m]
             /\ \A t \in DOMAIN registry[m] : registry'[m][t] = registry[m][t]
  BY <1>1, <1>3 DEF NodeInv, Tables
<1>6. ASSUME NEW m \in Nodes PROVE HandledType(m, handled[m])'
  BY <1>1, <1>5 DEF NodeInv, HandledType
<1>7. ASSUME NEW m \in Nodes
      PROVE  GuardType(guard'[m]) /\ \A x \in admitted'[m] : SentTo(m, x)'
  BY <1>1 DEF NodeInv, SentTo
<1> QED
  BY <1>4, <1>5, <1>6, <1>7 DEF NodeInv

\* The log growing, the clock and the keys are nothing to the tables.
LEMMA UntouchedKeeps ==
  ASSUME NodeInv, log \subseteq log', registry' = registry, Ignoring
  PROVE  NodeInv'
<1>1. Tables'
  BY DEF NodeInv, Tables, Ignoring
<1>2. ASSUME NEW m \in Nodes
      PROVE  GuardType(guard'[m]) /\ \A x \in admitted'[m] : SentTo(m, x)'
  BY DEF NodeInv, Tables, Ignoring, SentTo
<1>3. ASSUME NEW m \in Nodes PROVE HandledType(m, handled[m])' /\ RegistryType(registry'[m])
  BY DEF NodeInv, Ignoring, HandledType
<1> QED
  BY <1>1, <1>2, <1>3 DEF NodeInv

\* What a step does to the tables of the nodes.
TablesStep ==
  \/ log \subseteq log' /\ registry' = registry /\ Ignoring
  \/ \E n \in Nodes, frame \in Presentable : \E r :
       Admitting(n, frame.envelope, r) /\ log' = log /\ registry' = registry
  \/ \E n \in Nodes, kind \in Kinds : Register(n, kind)

\* Every step does one of these to them.
LEMMA NextTables ==
  ASSUME StoreInv, [Next]_vars
  PROVE  TablesStep
<1>1. StepKind
  BY NextKind DEF StoreInv
<1>2. ASSUME NEW route \in Routes, Seals(route) PROVE TablesStep
  BY <1>2 DEF Seals, Grows, Adds, TablesStep, Ignoring
<1>3. ASSUME NEW n \in Nodes, NEW frame \in Presentable, Receive(n, frame) PROVE TablesStep
  <2>1. /\ log' = log /\ registry' = registry
        /\ Ignoring \/ \E r : Admitting(n, frame.envelope, r)
    BY <1>3, ReceiveShape
  <2> QED
    BY <2>1 DEF TablesStep
<1>4. ASSUME NEW n \in Nodes, Rotate(n) PROVE TablesStep
  BY <1>4 DEF Rotate, TablesStep, Ignoring
<1>5. ASSUME NEW n \in Nodes, NEW kind \in Kinds, Register(n, kind) PROVE TablesStep
  BY <1>5 DEF TablesStep
<1>6. CASE Tick
  BY <1>6 DEF Tick, TablesStep, Ignoring
<1>7. CASE UNCHANGED vars
  BY <1>7 DEF vars, TablesStep, Ignoring
<1> QED
  BY <1>1, <1>2, <1>3, <1>4, <1>5, <1>6, <1>7 DEF StepKind

\* The tables of the nodes are in order, always.
THEOREM TablesInOrder == Spec => [](StoreInv /\ NodeInv)
<1>1. Init => NodeInv
  <2> SUFFICES ASSUME Init PROVE NodeInv
    OBVIOUS
  <2>1. DOMAIN EmptyMap = {} /\ DOMAIN EmptyBag = {}
    BY DEF EmptyMap, EmptyBag, SetToBag
  <2>2. Tables
    BY DEF Init, Tables
  <2>3. ASSUME NEW n \in Nodes
        PROVE  /\ DOMAIN guard[n] = {} /\ DOMAIN registry[n] = {}
               /\ admitted[n] = {} /\ DOMAIN handled[n] = {}
    BY <2>1 DEF Init
  <2> QED
    BY <2>2, <2>3 DEF NodeInv, GuardType, RegistryType, HandledType
<1>2. StoreInv /\ NodeInv /\ [Next]_vars => NodeInv'
  <2> SUFFICES ASSUME StoreInv, NodeInv, [Next]_vars PROVE NodeInv'
    OBVIOUS
  <2>1. TablesStep
    BY NextTables
  <2> QED
    BY <2>1, UntouchedKeeps, AdmittingKeeps, RegisterKeeps DEF TablesStep
<1> QED
  BY <1>1, <1>2, RelayHoldsOnlySealed, PTL DEF Spec

\* The types of the log, the counters, the clocks and the tables of every node; what
\* a node let in was sent as it is.
THEOREM TypeCorrect == Spec => []TypeOK
<1>1. StoreInv /\ NodeInv => TypeOK
  <2> SUFFICES ASSUME StoreInv, NodeInv PROVE TypeOK
    OBVIOUS
  <2>1. ASSUME NEW e \in log
        PROVE  /\ e.frame.len <= MAX_ENVELOPE_BYTES /\ e.frame.envelope.flags \in 0 .. 7
               /\ e.frame.envelope.stream \in Headers \cup {NoStream}
    <3>1. PICK k \in 0 .. seals - 1 : EntryType(e, k)
      BY DEF StoreInv, LogInv
    <3>2. /\ e.frame.envelope.flags = SealedFlags(e.params.shape) /\ e.params.shape \in Shapes
          /\ e.frame.envelope.stream = e.params.stream
          /\ e.params.stream \in Headers \cup {NoStream}
      BY <3>1 DEF EntryType, SealedAs, ParamsType
    <3>3. SealedFlags(e.params.shape) \in 4 .. 7
      BY <3>2, FlagsRoundTrip
    <3>4. 4 .. 7 \subseteq 0 .. 7
      OBVIOUS
    <3> QED
      BY <3>1, <3>2, <3>3, <3>4 DEF EntryType
  <2>2. /\ seals \in 0 .. MaxSeals /\ counter \in [Routes -> 0 .. MaxSeals]
        /\ \A n \in Nodes : epoch[n] \in 0 .. MaxEpoch[n]
        /\ now \in 1 .. MaxNow
    <3>1. seals \in 0 .. MaxSeals /\ counter \in [Routes -> 0 .. seals] /\ MaxSeals \in Nat
      BY MessagingAssumption DEF StoreInv, Clocks, U64
    <3>2. 0 .. seals \subseteq 0 .. MaxSeals
      BY <3>1
    <3>3. counter \in [Routes -> 0 .. MaxSeals]
      BY <3>1, <3>2
    <3> QED
      BY <3>1, <3>3 DEF StoreInv, Clocks
  <2>3. ASSUME NEW n \in Nodes
        PROVE  /\ \A k \in DOMAIN guard[n] : guard[n][k] \in Windows
               /\ \A t \in DOMAIN registry[n] : registry[n][t] \in Kinds /\ registry[n][t].type_id = t
               /\ admitted[n] \subseteq Sent
    BY DEF NodeInv, GuardType, RegistryType, SentTo, Sent
  <2> QED
    BY <2>1, <2>2, <2>3 DEF TypeOK
<1> QED
  BY <1>1, TablesInOrder, PTL

\* The messages of a type go to the handler registered for it first, for good.
THEOREM OneHandlerPerTypeHolds == Spec => []OneHandlerPerType
<1>1. NodeInv => OneHandlerPerType
  BY DEF NodeInv, HandledType, OneHandlerPerType, BagToSet
<1> QED
  BY <1>1, TablesInOrder, PTL
-----------------------------------------------------------------------------
(***************************************************************************)
(* The guard of a node.                                                    *)
(***************************************************************************)

\* The counters of the envelopes of a sender key that node n let in.
CountersIn(n, key) == {InnerOf(env).counter : env \in {x \in admitted[n] : KeyOf(x) = key}}

\* A window in use remembers counters that were let in, and no others.
Remembers ==
  \A n \in Nodes : \A k \in DOMAIN guard[n] :
    \E S \in SUBSET CountersIn(n, k) : Tracks(guard[n][k], S)

\* The counters let in are u64.
LEMMA CountersInType ==
  ASSUME StoreInv, NodeInv, NEW n \in Nodes, NEW key
  PROVE  CountersIn(n, key) \in SUBSET U64
<1>1. ASSUME NEW env \in admitted[n] PROVE InnerOf(env).counter \in U64
  <2>1. PICK e \in log : e.frame.envelope = env /\ Own(e)
    BY DEF NodeInv, SentTo
  <2> QED
    BY <2>1, OwnEntry
<1> QED
  BY <1>1 DEF CountersIn

\* A window that tracked S tracks the new counter as well.
LEMMA AdvancedTracks ==
  ASSUME WideUsize, NEW g, GuardType(g), NEW E, NEW key, NEW c \in U64, NEW ts \in U64, NEW new,
         Admits(Current(g, key), c), RecordedAs(g, E, key, c, ts, new), NEW S \in SUBSET U64,
         IF key \in DOMAIN g THEN Tracks(g[key], S) ELSE S = {}
  PROVE  Tracks(new[key], S \cup {c})
<1> DEFINE w == Current(g, key)
           v == admit(w, c)
<1>1. new[key] = SeenAt(v, ts) /\ v \in Windows
  <2>1. AdvancedBy(g, E, key, c, ts, new)
    BY AdvancedGuard
  <2> QED
    BY <2>1 DEF AdvancedBy
<1>2. Tracks(v, S \cup {c})
  <2>1. CASE key \in DOMAIN g
    <3>1. w = g[key] /\ w \in Windows /\ w.started /\ Tracks(w, S)
      BY <2>1 DEF Current, GuardType
    <3> HIDE DEF w
    <3>2. Admits(w, c)
      BY DEF w
    <3> QED
      BY <3>1, <3>2, TracksAdmit
  <2>2. CASE key \notin DOMAIN g
    <3>1. w = NewWindow /\ S \cup {c} = {c}
      BY <2>2 DEF Current
    <3> HIDE DEF w
    <3> QED
      BY <3>1, TracksFirst
  <2> QED
    BY <2>1, <2>2
<1> HIDE DEF v
<1>3. Tracks(SeenAt(v, ts), S \cup {c})
  BY <1>1, <1>2, TracksSeenAt
<1> QED
  BY <1>1, <1>3

\* Node n lets an envelope in: its windows and the counters let in, before and after.
Counts(n, env, E, r) ==
  LET inner == InnerOf(env)
  IN  /\ LetsIn(n, env, E, r)
      /\ inner.counter \in U64 /\ inner.timestamp_ms \in U64
      /\ env.sender \in Nodes /\ env.sender_epoch \in Nat
      /\ env.sender_epoch <= epoch[env.sender]
      /\ Admits(Current(guard[n], KeyOf(env)), inner.counter)
      /\ RecordedAs(guard[n], E, KeyOf(env), inner.counter, inner.timestamp_ms, r.guard)
      /\ guard'[n] = r.guard /\ \A m \in Nodes : m # n => guard'[m] = guard[m]
      /\ \A m \in Nodes : \A k :
           CountersIn(m, k)' = IF m = n /\ k = KeyOf(env)
                                 THEN CountersIn(m, k) \cup {inner.counter}
                                 ELSE CountersIn(m, k)

\* That is what letting in does.
LEMMA AdmittingCounts ==
  ASSUME StoreInv, NodeInv, NEW n \in Nodes, NEW frame \in Presentable, NEW r,
         Admitting(n, frame.envelope, r)
  PROVE  \E E \in SUBSET DOMAIN guard[n] : Counts(n, frame.envelope, E, r)
<1> DEFINE env == frame.envelope
           inner == InnerOf(env)
<1>1. PICK E \in SUBSET DOMAIN guard[n] : LetsIn(n, env, E, r)
  BY DEF Admitting
<1>2. PICK e \in log : e.frame.envelope = env /\ Own(e)
  BY <1>1, LetInWasSent
<1>3. /\ inner.counter \in U64 /\ inner.timestamp_ms \in U64
      /\ env.sender \in Nodes /\ env.sender_epoch \in Nat
      /\ env.sender_epoch <= epoch[env.sender]
  BY <1>2, OwnEntry
<1>4. /\ guard' = [guard EXCEPT ![n] = r.guard]
      /\ admitted' = [admitted EXCEPT ![n] = @ \cup {env}]
  BY DEF Admitting
<1> HIDE DEF inner, env
<1>5. /\ Admits(Current(guard[n], KeyOf(env)), inner.counter)
      /\ RecordedAs(guard[n], E, KeyOf(env), inner.counter, inner.timestamp_ms, r.guard)
  BY <1>1 DEF LetsIn, LetIn, Passes, inner
<1>6. guard'[n] = r.guard /\ \A m \in Nodes : m # n => guard'[m] = guard[m]
  BY <1>4 DEF NodeInv, Tables
<1>7. \A m \in Nodes : admitted'[m] = IF m = n THEN admitted[m] \cup {env} ELSE admitted[m]
  BY <1>4 DEF NodeInv, Tables
<1>8. ASSUME NEW m \in Nodes, NEW k
      PROVE  CountersIn(m, k)' = IF m = n /\ k = KeyOf(env)
                                   THEN CountersIn(m, k) \cup {inner.counter}
                                   ELSE CountersIn(m, k)
  BY <1>7 DEF CountersIn, inner
<1> QED
  BY <1>1, <1>3, <1>5, <1>6, <1>8 DEF Counts, inner, env

\* The windows remember only what was let in, whatever is evicted.
LEMMA RemembersStep ==
  ASSUME WideUsize, StoreInv, NodeInv, Remembers, [Next]_vars
  PROVE  Remembers'
<1>1. TablesStep
  BY NextTables
<1>2. CASE Ignoring
  BY <1>2 DEF Remembers, NodeInv, Tables, Ignoring, CountersIn
<1>3. ASSUME NEW n \in Nodes, NEW kind \in Kinds, Register(n, kind) PROVE Remembers'
  BY <1>3 DEF Remembers, Register, CountersIn
<1>4. ASSUME NEW n \in Nodes, NEW frame \in Presentable, NEW r, Admitting(n, frame.envelope, r)
      PROVE  Remembers'
  <2> DEFINE env == frame.envelope
             c == InnerOf(env).counter
             ts == InnerOf(env).timestamp_ms
             key == KeyOf(env)
             g == guard[n]
  <2>1. PICK E \in SUBSET DOMAIN guard[n] :
          /\ c \in U64 /\ ts \in U64
          /\ Admits(Current(g, key), c) /\ RecordedAs(g, E, key, c, ts, r.guard)
          /\ guard'[n] = r.guard /\ \A m \in Nodes : m # n => guard'[m] = guard[m]
          /\ \A m \in Nodes : \A k :
               CountersIn(m, k)' = IF m = n /\ k = key THEN CountersIn(m, k) \cup {c}
                                                       ELSE CountersIn(m, k)
    <3>1. PICK E \in SUBSET DOMAIN guard[n] : Counts(n, env, E, r)
      BY <1>4, AdmittingCounts
    <3> WITNESS E \in SUBSET DOMAIN guard[n]
    <3> HIDE DEF env
    <3> QED
      BY <3>1 DEF Counts
  <2>2. GuardType(g) /\ CountersIn(n, key) \in SUBSET U64
    BY CountersInType DEF NodeInv
  <2>3. PICK S \in SUBSET CountersIn(n, key) :
          IF key \in DOMAIN g THEN Tracks(g[key], S) ELSE S = {}
    BY DEF Remembers
  <2> HIDE DEF env, c, ts, key, g
  <2>4. Tracks(r.guard[key], S \cup {c})
    BY <2>1, <2>2, <2>3, AdvancedTracks
  <2>5. /\ DOMAIN r.guard = (DOMAIN g \ E) \cup {key}
        /\ \A k \in DOMAIN g \ E : k # key => r.guard[k] = g[k]
    <3>1. AdvancedBy(g, E, key, c, ts, r.guard)
      BY <2>1, <2>2, AdvancedGuard
    <3> QED
      BY <3>1 DEF AdvancedBy
  <2>6. ASSUME NEW m \in Nodes, NEW k \in DOMAIN guard'[m]
        PROVE  \E T \in SUBSET CountersIn(m, k)' : Tracks(guard'[m][k], T)
    <3>1. CASE m # n
      <4>1. guard'[m] = guard[m] /\ CountersIn(m, k)' = CountersIn(m, k)
        BY <2>1, <3>1
      <4> QED
        BY <2>6, <4>1 DEF Remembers
    <3>2. CASE m = n /\ k = key
      <4>1. S \cup {c} \in SUBSET CountersIn(m, k)'
        BY <2>1, <3>2
      <4> QED
        BY <2>1, <2>4, <3>2, <4>1
    <3>3. CASE m = n /\ k # key
      <4>1. k \in DOMAIN guard[n] /\ guard'[m][k] = guard[n][k]
        BY <2>1, <2>5, <2>6, <3>3 DEF g
      <4>2. CountersIn(m, k)' = CountersIn(n, k)
        BY <2>1, <3>3
      <4> QED
        BY <4>1, <4>2 DEF Remembers
    <3> QED
      BY <3>1, <3>2, <3>3
  <2> QED
    BY <2>6 DEF Remembers
<1> QED
  BY <1>1, <1>2, <1>3, <1>4 DEF TablesStep

\* On a target whose usize holds a u64 the windows of a node remember counters that
\* were let in, and no others.
THEOREM GuardRemembers == ASSUME WideUsize PROVE Spec => [](StoreInv /\ NodeInv /\ Remembers)
<1>1. Init => Remembers
  BY DEF Init, Remembers, EmptyMap
<1>2. StoreInv /\ NodeInv /\ Remembers /\ [Next]_vars => Remembers'
  BY RemembersStep
<1> QED
  BY <1>1, <1>2, TablesInOrder, PTL DEF Spec
-----------------------------------------------------------------------------
(***************************************************************************)
(* With room in the guards for every key that ever resolves, no envelope   *)
(* is let in twice.                                                        *)
(***************************************************************************)

\* The (sender, epoch) pairs that can authenticate a message, and room for them.
SenderKeys == {k \in Nodes \X Nat : k[2] <= MaxEpoch[k[1]]}
Room == IsFiniteSet(SenderKeys) /\ Cardinality(SenderKeys) <= MAX_TRACKED_SENDERS

\* The windows remember all that was let in.
RemembersAll ==
  \A n \in Nodes :
    /\ DOMAIN guard[n] \subseteq SenderKeys
    /\ \A k \in SenderKeys : IF k \in DOMAIN guard[n] THEN Tracks(guard[n][k], CountersIn(n, k))
                                                      ELSE CountersIn(n, k) = {}

\* With room for every key evict_if_full drops none.
LEMMA NoneEvicted ==
  ASSUME Room, NEW g, DOMAIN g \subseteq SenderKeys, NEW key \in SenderKeys,
         NEW E, Evicts(g, E, key)
  PROVE  E = {}
<1> SUFFICES ASSUME key \notin DOMAIN g, ~(Cardinality(DOMAIN g) < MAX_TRACKED_SENDERS)
             PROVE  FALSE
  BY DEF Evicts
<1> DEFINE D == DOMAIN g
<1> HIDE DEF D
<1>1. IsFiniteSet(SenderKeys) /\ D \cup {key} \subseteq SenderKeys /\ D \subseteq SenderKeys
  BY DEF Room, D
<1>2. IsFiniteSet(D)
  BY <1>1, FS_Subset
<1>3. Cardinality(D \cup {key}) = Cardinality(D) + 1
  BY <1>2, FS_AddElement DEF D
<1>4. Cardinality(D \cup {key}) <= Cardinality(SenderKeys)
  BY <1>1, FS_Subset
<1>5. Cardinality(D) \in Nat /\ Cardinality(SenderKeys) \in Nat
  BY <1>1, <1>2, FS_CardinalityType
<1>6. Cardinality(SenderKeys) <= MAX_TRACKED_SENDERS /\ MAX_TRACKED_SENDERS \in Nat
      /\ ~(Cardinality(D) < MAX_TRACKED_SENDERS)
  BY TableAssumption DEF Room, D
<1> QED
  BY <1>3, <1>4, <1>5, <1>6

\* A key that authenticates is one there is room for.
LEMMA KeyHasRoom ==
  ASSUME StoreInv, NEW env, env.sender \in Nodes, env.sender_epoch \in Nat,
         env.sender_epoch <= epoch[env.sender]
  PROVE  KeyOf(env) \in SenderKeys
<1>1. epoch[env.sender] \in Nat /\ epoch[env.sender] <= MaxEpoch[env.sender]
      /\ MaxEpoch[env.sender] \in Nat
  BY MessagingAssumption DEF StoreInv, Clocks
<1>2. env.sender_epoch <= MaxEpoch[env.sender]
  BY <1>1
<1> QED
  BY <1>2 DEF KeyOf, ReplayKey, SenderKeys

\* Every handler was run on an envelope of its own, once.
Once ==
  \A n \in Nodes : \A x, y \in DOMAIN handled[n] :
    handled[n][x] = 1 /\ (x.envelope = y.envelope => x = y)

OnceInv == StoreInv /\ NodeInv /\ RemembersAll /\ Once

\* What the windows remember is not let in again.
LEMMA LetInIsNew ==
  ASSUME WideUsize, OnceInv, NEW n \in Nodes, NEW env, NEW E, NEW r, Counts(n, env, E, r)
  PROVE  env \notin admitted[n]
<1> DEFINE key == KeyOf(env)
           c == InnerOf(env).counter
           g == guard[n]
           S == CountersIn(n, key)
<1> SUFFICES ASSUME env \in admitted[n] PROVE FALSE
  OBVIOUS
<1>1. /\ c \in U64 /\ env.sender \in Nodes /\ env.sender_epoch \in Nat
      /\ env.sender_epoch <= epoch[env.sender] /\ Admits(Current(g, key), c)
  BY DEF Counts
<1>2. key \in SenderKeys
  BY <1>1, KeyHasRoom DEF OnceInv
<1>3. c \in S
  BY DEF CountersIn
<1>4. key \in DOMAIN g /\ Tracks(g[key], S)
  BY <1>2, <1>3 DEF OnceInv, RemembersAll
<1>5. g[key] \in Windows /\ g[key].started /\ S \in SUBSET U64
  BY <1>4, CountersInType DEF OnceInv, NodeInv, GuardType
<1>6. Admits(g[key], c)
  BY <1>1, <1>4 DEF Current
<1> HIDE DEF g, S, c, key
<1>7. \A x \in S : x # c /\ x < c + REPLAY_WINDOW
  BY <1>1, <1>4, <1>5, <1>6, TracksAdmits
<1> QED
  BY <1>3, <1>7

\* The windows still remember all, once an envelope was let in.
LEMMA RemembersAllStep ==
  ASSUME WideUsize, Room, OnceInv, NEW n \in Nodes, NEW env, NEW E, NEW r, Counts(n, env, E, r)
  PROVE  RemembersAll'
<1> DEFINE key == KeyOf(env)
           c == InnerOf(env).counter
           ts == InnerOf(env).timestamp_ms
           g == guard[n]
           S == CountersIn(n, key)
<1>1. /\ c \in U64 /\ ts \in U64
      /\ env.sender \in Nodes /\ env.sender_epoch \in Nat
      /\ env.sender_epoch <= epoch[env.sender]
      /\ Admits(Current(g, key), c) /\ RecordedAs(g, E, key, c, ts, r.guard)
      /\ guard'[n] = r.guard /\ \A m \in Nodes : m # n => guard'[m] = guard[m]
      /\ \A m \in Nodes : \A k :
           CountersIn(m, k)' = IF m = n /\ k = key THEN CountersIn(m, k) \cup {c}
                                                   ELSE CountersIn(m, k)
  BY DEF Counts
<1>2. key \in SenderKeys
  BY <1>1, KeyHasRoom DEF OnceInv
<1>3. /\ GuardType(g) /\ DOMAIN g \subseteq SenderKeys /\ S \in SUBSET U64
      /\ IF key \in DOMAIN g THEN Tracks(g[key], S) ELSE S = {}
  BY <1>2, CountersInType DEF OnceInv, NodeInv, RemembersAll
<1> HIDE DEF key, c, ts, g, S
<1>4. E = {}
  BY <1>1, <1>2, <1>3, NoneEvicted DEF RecordedAs
<1>5. Tracks(r.guard[key], S \cup {c})
  BY <1>1, <1>3, AdvancedTracks
<1>6. DOMAIN r.guard = DOMAIN g \cup {key} /\ \A k \in DOMAIN g : k # key => r.guard[k] = g[k]
  <2>1. AdvancedBy(g, E, key, c, ts, r.guard)
    BY <1>1, <1>3, AdvancedGuard
  <2> QED
    BY <1>4, <2>1 DEF AdvancedBy
<1>7. ASSUME NEW m \in Nodes PROVE DOMAIN guard'[m] \subseteq SenderKeys
  BY <1>1, <1>2, <1>3, <1>6 DEF OnceInv, RemembersAll
<1>8. ASSUME NEW m \in Nodes, NEW k \in SenderKeys
      PROVE  IF k \in DOMAIN guard'[m] THEN Tracks(guard'[m][k], CountersIn(m, k)')
                                       ELSE CountersIn(m, k)' = {}
  <2>1. CASE m = n /\ k = key
    BY <1>1, <1>5, <1>6, <2>1 DEF S
  <2>2. CASE m = n /\ k # key
    <3>1. /\ k \in DOMAIN guard'[m] <=> k \in DOMAIN guard[m]
          /\ k \in DOMAIN guard[m] => guard'[m][k] = guard[m][k]
          /\ CountersIn(m, k)' = CountersIn(m, k)
      BY <1>1, <1>6, <2>2 DEF g
    <3> QED
      BY <3>1 DEF OnceInv, RemembersAll
  <2>3. CASE m # n
    <3>1. guard'[m] = guard[m] /\ CountersIn(m, k)' = CountersIn(m, k)
      BY <1>1, <2>3
    <3> QED
      BY <3>1 DEF OnceInv, RemembersAll
  <2> QED
    BY <2>1, <2>2, <2>3
<1> QED
  BY <1>7, <1>8 DEF RemembersAll

\* No handler is run twice on an envelope, once that was let in for the first time.
LEMMA OnceStep ==
  ASSUME OnceInv, NEW n \in Nodes, NEW env, NEW r, Admitting(n, env, r),
         env \notin admitted[n]
  PROVE  Once'
<1>1. CASE handled' = handled
  BY <1>1 DEF OnceInv, Once
<1>2. CASE RunsHandler(n, env, r)
  <2> DEFINE x == Run(n, env, r.result.value.message_type)
             B == handled[n]
  <2>1. handled' = [handled EXCEPT ![n] = B (+) SetToBag({x})]
    BY <1>2 DEF RunsHandler
  <2>2. x.envelope = env
    BY DEF Run
  <2> HIDE DEF x
  <2>3. handled'[n] = B (+) SetToBag({x}) /\ \A m \in Nodes : m # n => handled'[m] = handled[m]
    BY <2>1 DEF OnceInv, NodeInv, Tables
  <2>4. \A y \in DOMAIN B : y.envelope # env /\ B[y] = 1
    BY DEF OnceInv, NodeInv, HandledType, Once
  <2>5. x \notin DOMAIN B
    BY <2>2, <2>4
  <2>6. /\ DOMAIN handled'[n] = DOMAIN B \cup {x} /\ handled'[n][x] = 1
        /\ \A y \in DOMAIN B : handled'[n][y] = B[y] + 0
    <3> DEFINE C == B (+) SetToBag({x})
    <3>1. /\ DOMAIN C = DOMAIN B \cup {x} /\ \A y \in DOMAIN B : y # x => C[y] = B[y] + 0
          /\ x \notin DOMAIN B => C[x] = 1
      BY OneMoreCopy
    <3> HIDE DEF C, B
    <3>2. \A y \in DOMAIN B : y # x
      BY <2>5
    <3> QED
      BY <2>3, <2>5, <3>1, <3>2 DEF C
  <2>7. \A y \in DOMAIN handled'[n] : handled'[n][y] = 1
    BY <2>4, <2>6
  <2>8. \A y, z \in DOMAIN handled'[n] : y.envelope = z.envelope => y = z
    <3>1. \A y, z \in DOMAIN B : y.envelope = z.envelope => y = z
      BY DEF OnceInv, Once
    <3> QED
      BY <2>2, <2>4, <2>6, <3>1
  <2>9. ASSUME NEW m \in Nodes, NEW y \in DOMAIN handled'[m], NEW z \in DOMAIN handled'[m]
        PROVE  handled'[m][y] = 1 /\ (y.envelope = z.envelope => y = z)
    <3>1. CASE m = n
      BY <2>7, <2>8, <2>9, <3>1
    <3>2. CASE m # n
      BY <2>3, <2>9, <3>2 DEF OnceInv, Once
    <3> QED
      BY <3>1, <3>2
  <2> QED
    BY <2>9 DEF Once
<1> QED
  BY <1>1, <1>2 DEF Admitting

\* No message is handled twice and no two handlers are run on it, on a target whose
\* usize holds a u64 and with room in the guard for all keys that resolve.
THEOREM HandledOnceHolds ==
  ASSUME WideUsize, Room
  PROVE  Spec => []HandledOnce
<1>1. Init => RemembersAll /\ Once
  <2> SUFFICES ASSUME Init PROVE RemembersAll /\ Once
    OBVIOUS
  <2>1. DOMAIN EmptyMap = {} /\ DOMAIN EmptyBag = {}
    BY DEF EmptyMap, EmptyBag, SetToBag
  <2> QED
    BY <2>1 DEF Init, RemembersAll, Once, CountersIn
<1>2. OnceInv /\ [Next]_vars => (RemembersAll /\ Once)'
  <2> SUFFICES ASSUME OnceInv, [Next]_vars PROVE (RemembersAll /\ Once)'
    OBVIOUS
  <2>1. TablesStep
    BY NextTables DEF OnceInv
  <2>2. CASE Ignoring
    <3>1. /\ \A n \in Nodes : guard'[n] = guard[n]
          /\ \A n, k : CountersIn(n, k)' = CountersIn(n, k)
          /\ handled' = handled
      BY <2>2 DEF OnceInv, NodeInv, Tables, Ignoring, CountersIn
    <3>2. RemembersAll'
      BY <3>1 DEF OnceInv, RemembersAll
    <3>3. Once'
      BY <3>1 DEF OnceInv, Once
    <3> QED
      BY <3>2, <3>3
  <2>3. ASSUME NEW n \in Nodes, NEW kind \in Kinds, Register(n, kind)
        PROVE  (RemembersAll /\ Once)'
    <3>1. /\ guard' = guard /\ handled' = handled
          /\ \A m, k : CountersIn(m, k)' = CountersIn(m, k)
      BY <2>3 DEF Register, CountersIn
    <3>2. RemembersAll'
      BY <3>1 DEF OnceInv, RemembersAll
    <3>3. Once'
      BY <3>1 DEF OnceInv, Once
    <3> QED
      BY <3>2, <3>3
  <2>4. ASSUME NEW n \in Nodes, NEW frame \in Presentable, NEW r,
               Admitting(n, frame.envelope, r)
        PROVE  (RemembersAll /\ Once)'
    <3>1. PICK E \in SUBSET DOMAIN guard[n] : Counts(n, frame.envelope, E, r)
      BY <2>4, AdmittingCounts DEF OnceInv
    <3>2. frame.envelope \notin admitted[n]
      BY <3>1, LetInIsNew
    <3>3. RemembersAll'
      BY <3>1, RemembersAllStep
    <3>4. Once'
      BY <2>4, <3>2, OnceStep
    <3> QED
      BY <3>3, <3>4
  <2> QED
    BY <2>1, <2>2, <2>3, <2>4 DEF TablesStep
<1>3. Spec => []OnceInv
  BY <1>1, <1>2, TablesInOrder, PTL DEF Spec, OnceInv
<1>4. OnceInv => HandledOnce
  BY DEF OnceInv, Once, HandledOnce, BagToSet
<1> QED
  BY <1>3, <1>4, PTL
-----------------------------------------------------------------------------
(***************************************************************************)
(* Nothing keeps a node from opening a message that was sealed for it.     *)
(***************************************************************************)

\* What was sent decodes.
LEMMA SentDecodes ==
  ASSUME StoreInv, NEW n, NEW e \in log, NEW r \in Opened(n, e.frame)
  PROVE  r \in open_message(CurrentKey(n), e.frame.envelope, PubOf(e.frame.envelope), guard[n], now)
<1> DEFINE frame == e.frame
           env == e.frame.envelope
<1>1. PICK k \in 0 .. seals - 1 : EntryType(e, k)
  BY DEF StoreInv, LogInv
<1>2. frame.len \in Nat /\ frame.len <= MAX_ENVELOPE_BYTES /\ env.version = ENVELOPE_VERSION
      /\ IsEnvelope(env)
  BY <1>1 DEF EntryType, SealedAs
<1>3. env # Malformed
  BY <1>2 DEF IsEnvelope, Malformed
<1>4. ~(frame.len > MAX_ENVELOPE_BYTES) /\ ~(env.version > ENVELOPE_VERSION)
  BY <1>2, EnvelopeAssumption
<1>5. decode_envelope(frame) = Ok(env)
  BY <1>3, <1>4 DEF decode_envelope
<1>6. decode_envelope(frame).ok /\ decode_envelope(frame).value = env
  BY <1>5 DEF Ok
<1> QED
  BY <1>6 DEF Opened, PubOf

\* The guard passes the counter of a message that is in the window and was not let in.
LEMMA GuardPasses ==
  ASSUME WideUsize, StoreInv, NodeInv, Remembers, NEW n \in Nodes, NEW e \in log, Own(e),
         e.params.recipient = n, e.frame.envelope \notin admitted[n], InWindow(n, e)
  PROVE  Admits(Current(guard[n], KeyOf(e.frame.envelope)), e.params.counter)
<1> DEFINE env == e.frame.envelope
           key == KeyOf(env)
           c == e.params.counter
           g == guard[n]
<1>1. /\ InnerOf(env).counter = c /\ c \in U64 /\ env.sender = e.params.sender
      /\ env.sender_epoch = e.params.sender_epoch
  BY OwnEntry
<1>2. CASE key \notin DOMAIN g
  BY <1>2 DEF Current, Admits, NewWindow
<1>3. CASE key \in DOMAIN g
  <2>1. PICK S \in SUBSET CountersIn(n, key) : Tracks(g[key], S)
    BY <1>3 DEF Remembers
  <2>2. g[key] \in Windows /\ g[key].started /\ S \in SUBSET U64
    BY <1>3, CountersInType DEF NodeInv, GuardType
  <2>3. c + REPLAY_WINDOW > g[key].highest
    BY <1>1, <1>3 DEF InWindow, KeyOf
  <2>4. ASSUME NEW x \in S PROVE x # c
    <3> SUFFICES ASSUME x = c PROVE FALSE
      OBVIOUS
    <3>1. PICK old \in admitted[n] : KeyOf(old) = key /\ InnerOf(old).counter = c
      BY DEF CountersIn
    <3>2. PICK f \in log : f.frame.envelope = old /\ Own(f) /\ f.params.recipient = n
      BY DEF NodeInv, SentTo
    <3>3. f.params.counter = c /\ old.sender = f.params.sender
      BY <3>1, <3>2, OwnEntry
    <3>4. old.sender = env.sender
      BY <3>1 DEF KeyOf, ReplayKey
    <3>5. RouteOf(f) = RouteOf(e)
      BY <1>1, <3>2, <3>3, <3>4 DEF RouteOf
    <3>6. f = e
      BY <3>2, <3>3, <3>5 DEF StoreInv, CounterInv
    <3> QED
      BY <3>2, <3>6
  <2>5. ASSUME NEW x \in S PROVE x < c + REPLAY_WINDOW
    <3>1. x <= g[key].highest
      BY <2>1 DEF Tracks
    <3>2. x \in Nat /\ c \in Nat /\ g[key].highest \in Nat /\ REPLAY_WINDOW \in Nat
      BY <1>1, <2>2, WindowAssumption DEF U64, Windows, REPLAY_WINDOW
    <3> QED
      BY <2>3, <3>1, <3>2
  <2> HIDE DEF c, key, g
  <2>6. Admits(g[key], c)
    BY <1>1, <2>1, <2>2, <2>4, <2>5, TracksAdmits DEF c
  <2> QED
    BY <1>3, <2>6 DEF Current, c, key, g
<1> QED
  BY <1>2, <1>3

\* What compress_payload made is decompressed to what it was.
LEMMA SealedDecompresses ==
  ASSUME NEW e, MadeSo(e), e.made = "sealed", e.params.payload \in Payloads,
         PayloadLen[e.params.payload] <= MAX_DECOMPRESSED_BYTES
  PROVE  Decompressed(InnerOf(e.frame.envelope)) = Ok(Text(e.params.payload))
<1> DEFINE p == e.params
           c == compress_payload(p.payload)
           inner == InnerOf(e.frame.envelope)
<1>1. WrittenAs(inner, p, c.value)
  BY DEF MadeSo
<1>2. /\ inner.compression = c.value.compression /\ inner.payload = c.value.bytes
      /\ inner.uncompressed_len = c.value.uncompressed_len
  BY <1>1 DEF WrittenAs
<1>3. /\ c.value.uncompressed_len = PayloadLen[p.payload]
      /\ decompress_payload(c.value.compression, c.value.bytes, c.value.uncompressed_len)
           = Ok(Text(p.payload))
  BY RoundTrip
<1>4. ~(PayloadLen[p.payload] > MAX_DECOMPRESSED_BYTES)
  BY CompressionAssumption, MachineAssumption DEF U32, U64
<1> HIDE DEF c, p, inner
<1>5. Decompressed(inner) = Ok(Text(p.payload))
  BY <1>2, <1>3, <1>4 DEF Decompressed
<1> QED
  BY <1>5 DEF inner, p

\* A message sealed for a node opens there the first time it comes, fresh and in the
\* window, whatever was presented before: with the sender's payload, shape and type.
THEOREM GoodMessageOpensHolds == ASSUME WideUsize PROVE Spec => []GoodMessageOpens
<1>1. ASSUME StoreInv, NodeInv, Remembers, NEW n \in Nodes, NEW e \in log,
             e.made = "sealed", SealedFor(n, e), e.frame.envelope \notin admitted[n],
             Fresh(e.params.timestamp_ms, now), InWindow(n, e),
             ~TtlTooLong(e.params), ~Expired(e.params, now),
             PayloadLen[e.params.payload] <= MAX_DECOMPRESSED_BYTES,
             NEW r \in Opened(n, e.frame)
      PROVE  /\ r.result.ok
             /\ r.result.value.payload = Text(e.params.payload)
             /\ r.result.value.shape = e.params.shape
             /\ r.result.value.message_type = e.params.message_type
  <2> DEFINE env == e.frame.envelope
             inner == InnerOf(env)
             p == e.params
  <2>1. Own(e)
    BY <1>1 DEF Own
  <2>2. Genuine(CurrentKey(n), env, PubOf(env))
    BY <1>1, <2>1, OwnGenuine
  <2>3. /\ inner.counter = p.counter /\ inner.timestamp_ms = p.timestamp_ms
        /\ inner.expires_at = p.expires_at
    BY <1>1, <2>1, OwnEntry
  <2>4. ~TtlTooLong(inner) /\ ~Expired(inner, now)
    BY <1>1, <2>3 DEF TtlTooLong, Expired
  <2>5. p.recipient = n
    BY <1>1, <2>1, SealedForNode
  <2>6. Passes(guard[n], KeyOf(env), inner.counter, inner.timestamp_ms, now)
    BY <1>1, <2>1, <2>3, <2>5, GuardPasses DEF Passes
  <2>7. PICK k \in 0 .. seals - 1 : EntryType(e, k)
    BY <1>1 DEF StoreInv, LogInv
  <2>8. /\ MadeSo(e) /\ p.payload \in Payloads /\ p.shape \in Shapes
        /\ env.flags = SealedFlags(p.shape) /\ env.message_type = p.message_type
    BY <2>7 DEF EntryType, ParamsType, SealedAs
  <2>9. Decompressed(inner) = Ok(Text(p.payload))
    BY <1>1, <2>8, SealedDecompresses
  <2>10. Decompressed(inner).ok /\ Decompressed(inner).value = Text(p.payload)
    BY <2>9 DEF Ok
  <2>11. r \in open_message(CurrentKey(n), env, PubOf(env), guard[n], now)
    BY <1>1, SentDecodes
  <2>12. ~Turned(CurrentKey(n), env, PubOf(env), guard[n], now, r)
    BY <2>2, <2>4, <2>6 DEF Turned
  <2> HIDE DEF env, inner, p
  <2>13. PICK E \in SUBSET DOMAIN guard[n] :
           LetIn(CurrentKey(n), env, PubOf(env), guard[n], now, E, r)
    BY <2>11, <2>12, OpenShape
  <2>14. /\ r.result.ok
         /\ r.result.value = OpenedMessage(env, inner, Decompressed(inner).value)
    BY <2>10, <2>13 DEF LetIn, inner
  <2>15. /\ r.result.value.payload = Text(p.payload)
         /\ r.result.value.shape = from_flags(env.flags)
         /\ r.result.value.message_type = inner.message_type
    BY <2>10, <2>14 DEF OpenedMessage
  <2>16. inner.message_type = env.message_type
    BY <2>2 DEF Genuine, inner
  <2>17. from_flags(env.flags) = p.shape
    BY <2>8, FlagsRoundTrip
  <2> QED
    BY <2>8, <2>14, <2>15, <2>16, <2>17 DEF p
<1>2. StoreInv /\ NodeInv /\ Remembers => GoodMessageOpens
  BY <1>1 DEF GoodMessageOpens
<1> QED
  BY <1>2, GuardRemembers, PTL
=============================================================================
