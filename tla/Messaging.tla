----------------------------- MODULE Messaging -----------------------------
(***************************************************************************)
(* Nodes that send each other sealed messages through an untrusted relay   *)
(* and dispatch what they open: seal_message, encode_envelope, then on the *)
(* other side decode_envelope, open_message, MessageRegistry::dispatch.    *)
(*                                                                         *)
(* log is every envelope that was ever sealed and sent.  The relay may     *)
(* present any of them to any node, any number of times, as it is or with  *)
(* one field changed or taken from another envelope.  The Dishonest nodes  *)
(* have keys of their own and may seal what the code never would.          *)
(*                                                                         *)
(* The caller keeps what the crate asks of it: a counter per recipient     *)
(* that is used up by every attempt to seal, one guard and one registry    *)
(* per node, and the key of the current epoch.  A correlation id and an    *)
(* ephemeral key are fresh for each message.                               *)
(***************************************************************************)
EXTENDS Seal, MessageRegistry, Bags

CONSTANTS Nodes,       \* the DIDs that send and receive
          Unsound,     \* DIDs whose published key is not in the subgroup
          Sends,       \* what is sent: (route, message) pairs
          Kinds,       \* the message kinds the applications may register
          Registering, \* the nodes that register kinds
          Dishonest,   \* the nodes that may seal what the code would not
          Crafted,     \* the messages they start from
          Lies,        \* the compression fields they may make up
          Ephemeral,   \* tags the ephemeral keys apart from the identity keys
          MaxSeals,    \* bound on the attempts to seal
          MaxEpoch,    \* bound on the key epochs of each node
          MaxNow       \* bound on the clock

\* A route is a sender and a recipient; a message a type, a shape, a stream
\* header, a payload and a TTL.
Routes == {s[1] : s \in Sends}
Messages == {s[2] : s \in Sends} \cup Crafted

ASSUME MessagingAssumption ==
  /\ Nodes \cap Unsound = {} /\ Dishonest \cup Registering \subseteq Nodes
  /\ Routes \subseteq Nodes \X (Nodes \cup Unsound)
  /\ \A m \in Messages : /\ m.shape \in Shapes /\ m.payload \in Payloads
                         /\ m.stream \in Headers \cup {NoStream}
  /\ \A lie \in Lies : lie.bytes \in Bytes /\ lie.uncompressed_len \in U32
  /\ MaxSeals \in U64 /\ MaxEpoch \in [Nodes -> Nat] /\ MaxNow \in U64 \ {0}

VARIABLES log,        \* what was sealed and sent
          seals,      \* how many ephemeral keys were drawn
          counter,    \* the next counter of each route
          epoch,      \* the key epoch of each node
          guard,      \* the replay guard of each node
          registry,   \* the registry of each node
          now,        \* the wall clock
          admitted,   \* what each node's guard let through
          handled     \* what each node's handlers were run on

vars == <<log, seals, counter, epoch, guard, registry, now, admitted, handled>>

Init ==
  /\ log = {} /\ seals = 0
  /\ counter = [r \in Routes |-> 0]
  /\ epoch = [n \in Nodes |-> 0]
  /\ guard = [n \in Nodes |-> EmptyMap]
  /\ registry = [n \in Nodes |-> EmptyMap]
  /\ now = 1
  /\ admitted = [n \in Nodes |-> {}]
  /\ handled = [n \in Nodes |-> EmptyBag]

DIDs == Nodes \cup Unsound

\* The identity key of a node at an epoch, and what resolve_sender_pub finds.
SecretKey(n, e) == <<n, e>>
CurrentKey(n) == SecretKey(n, epoch[n])
Resolve(did, e) ==
  IF did \in Unsound THEN <<BadPoint>>
  ELSE IF did \in Nodes /\ e <= epoch[did] THEN <<public_key_bytes(SecretKey(did, e))>>
  ELSE <<>>
RecipientPub(did) ==
  IF did \in Unsound THEN BadPoint ELSE public_key_bytes(CurrentKey(did))
-----------------------------------------------------------------------------
\* Sending.

SealParams(route, m) ==
  [sender_sk |-> CurrentKey(route[1]), sender |-> route[1],
   sender_epoch |-> epoch[route[1]], recipient |-> route[2],
   recipient_pub |-> RecipientPub(route[2]), message_type |-> m.message_type,
   shape |-> m.shape, correlation_id |-> seals, stream |-> m.stream,
   counter |-> counter[route], timestamp_ms |-> now,
   expires_at |-> IF m.ttl = 0 THEN 0 ELSE now + m.ttl, payload |-> m.payload]

Esk == <<Ephemeral, seals>>

\* An attempt to seal along a route; what is encoded goes to the relay.
Attempt(route, made, params, sealed) ==
  LET encoded == IF sealed.ok THEN encode_envelope(sealed.value) ELSE sealed
  IN  /\ seals < MaxSeals
      /\ seals' = seals + 1
      /\ counter' = [counter EXCEPT ![route] = @ + 1]
      /\ log' = IF encoded.ok
                  THEN log \cup {[made |-> made, params |-> params, frame |-> encoded.value]}
                  ELSE log
      /\ UNCHANGED <<epoch, guard, registry, now, admitted, handled>>

Send(route, m) ==
  LET params == SealParams(route, m)
  IN  Attempt(route, "sealed", params, seal_with_ephemeral(params, Esk))

\* A dishonest node seals an inner message of its making.
SealInner(route, made, params, inner) ==
  /\ route[1] \in Dishonest /\ route[2] \in Nodes
  /\ Attempt(route, made, params, Ok(Filled(params, Esk, Unfilled(params, Esk), inner)))

\* It claims to be someone else.
Impersonate(route, m, other) ==
  /\ other # route[1] /\ route[1] \in Dishonest
  /\ LET params == [SealParams(route, m) EXCEPT !.sender = other,
                                                !.sender_epoch = epoch[other]]
     IN  Attempt(route, "impersonated", params, seal_with_ephemeral(params, Esk))

\* It passes on, as its own or as its author's, a message it received.
Forward(route, entry, author) ==
  LET inner == entry.frame.envelope.sealed.ciphertext.plaintext
      params == [entry.params EXCEPT
                   !.sender_sk = CurrentKey(route[1]), !.sender = author,
                   !.sender_epoch = epoch[author],
                   !.recipient = route[2], !.recipient_pub = RecipientPub(route[2])]
  IN  /\ entry.made = "sealed" /\ entry.params.recipient = route[1]
      /\ author \in {route[1], entry.params.sender}
      /\ SealInner(route, "forwarded", params, inner)

\* It seals bytes that are no inner message, an inner message of another type
\* than the header says, or one whose compression fields are not true.
Garble(route, m) == SealInner(route, "garbled", SealParams(route, m), Malformed)

Mislabel(route, m, type) ==
  LET params == SealParams(route, m)
      compressed == compress_payload(m.payload)
      inner == [UnsignedInner(params, compressed.value) EXCEPT !.message_type = type]
  IN  /\ compressed.ok /\ type # m.message_type
      /\ SealInner(route, "mislabelled", params,
                   Signed(params.sender_sk, Unfilled(params, Esk), inner))

Lie(route, m, lie) ==
  LET params == SealParams(route, m)
      inner == UnsignedInner(params, lie)
  IN  SealInner(route, "lied", params,
                Signed(params.sender_sk, Unfilled(params, Esk), inner))
-----------------------------------------------------------------------------
\* Receiving.

Sent == {e.frame.envelope : e \in log}
Types == {m.message_type : m \in Messages}

\* One header field, the encapsulation or the ciphertext is another.
Altered(env) ==
  {[env EXCEPT !.version = v] : v \in {0, ENVELOPE_VERSION + 1}}
  \cup {[env EXCEPT !.message_type = t] : t \in Types}
  \cup {[env EXCEPT !.flags = f] : f \in {SealedFlags("OneShot"), env.flags - FLAG_SEALED}}
  \cup {[env EXCEPT !.correlation_id = MaxSeals]}
  \cup {[env EXCEPT !.sender = d] : d \in DIDs}
  \cup {[env EXCEPT !.recipient = d] : d \in DIDs}
  \cup {[env EXCEPT !.sender_epoch = e] : e \in 0 .. 2}
  \cup {[env EXCEPT !.stream = m.stream] : m \in Messages}
  \cup (IF env.stream = NoStream THEN {} ELSE {[env EXCEPT !.stream.window = @ + 1]})
  \cup {[env EXCEPT !.sealed.kem_enc = k] : k \in {BadPoint} \cup {f.sealed.kem_enc : f \in Sent}}
  \cup {[env EXCEPT !.sealed.ciphertext = c] : c \in {Malformed} \cup {f.sealed.ciphertext : f \in Sent}}

\* What the relay may present: frames that are no envelope, or are too large,
\* and envelopes as sent or altered.
Presentable ==
  {[len |-> 0, envelope |-> Malformed],
   [len |-> MAX_ENVELOPE_BYTES + 1, envelope |-> Malformed]}
  \cup {[len |-> FIXED_BYTES, envelope |-> env] : env \in UNION {Altered(e) : e \in Sent}}
  \cup {e.frame : e \in log}

\* What node n makes of a frame: (result, guard) pairs.
Opened(n, frame) ==
  LET decoded == decode_envelope(frame)
      env == decoded.value
  IN  IF ~decoded.ok
        THEN {[result |-> decoded, guard |-> guard[n]]}
        ELSE open_message(CurrentKey(n), env, Resolve(env.sender, env.sender_epoch),
                          guard[n], now)

\* ... and what becomes of it.
Dispatched(n, opened) ==
  dispatch(registry[n], opened.message_type, opened.shape, opened.payload)

Receive(n, frame) ==
  \E r \in Opened(n, frame) :
    /\ guard' = [guard EXCEPT ![n] = r.guard]
    /\ admitted' = IF r.result.ok \/ r.guard # guard[n]
                     THEN [admitted EXCEPT ![n] = @ \cup {frame.envelope}]
                     ELSE admitted
    /\ handled' =
         IF r.result.ok /\ Dispatched(n, r.result.value) = "Handled"
           THEN [handled EXCEPT ![n] = @ (+) SetToBag(
                  {[envelope |-> frame.envelope, message_type |-> r.result.value.message_type,
                    handler |-> registry[n][r.result.value.message_type].handler]})]
           ELSE handled
    /\ UNCHANGED <<log, seals, counter, epoch, registry, now>>
-----------------------------------------------------------------------------
Register(n, kind) ==
  /\ registry' = [registry EXCEPT ![n] = register(@, kind)]
  /\ UNCHANGED <<log, seals, counter, epoch, guard, now, admitted, handled>>

\* A node changes to its next key; the keys of its earlier epochs still resolve.
Rotate(n) ==
  /\ epoch[n] < MaxEpoch[n]
  /\ epoch' = [epoch EXCEPT ![n] = @ + 1]
  /\ UNCHANGED <<log, seals, counter, guard, registry, now, admitted, handled>>

Tick ==
  /\ now < MaxNow
  /\ now' = now + 1
  /\ UNCHANGED <<log, seals, counter, epoch, guard, registry, admitted, handled>>

Craft(route) ==
  \/ \E m \in Crafted :
       \/ \E other \in Nodes : Impersonate(route, m, other)
       \/ Garble(route, m)
       \/ \E type \in Types : Mislabel(route, m, type)
       \/ \E lie \in Lies : Lie(route, m, lie)
  \/ \E entry \in log, author \in Nodes : Forward(route, entry, author)

Next ==
  \/ \E s \in Sends : Send(s[1], s[2])
  \/ \E route \in Routes : Craft(route)
  \/ \E n \in Nodes : (\E frame \in Presentable : Receive(n, frame)) \/ Rotate(n)
  \/ \E n \in Registering, kind \in Kinds : Register(n, kind)
  \/ Tick

Spec == Init /\ [][Next]_vars
-----------------------------------------------------------------------------
\* The type invariant.
TypeOK ==
  /\ seals \in 0 .. MaxSeals
  /\ \A e \in log : /\ e.frame.len <= MAX_ENVELOPE_BYTES
                    /\ e.frame.envelope.flags \in 0 .. 7
                    /\ e.frame.envelope.stream \in Headers \cup {NoStream}
  /\ counter \in [Routes -> 0 .. MaxSeals]
  /\ \A n \in Nodes : epoch[n] \in 0 .. MaxEpoch[n]
  /\ \A n \in Nodes : /\ \A k \in DOMAIN guard[n] : guard[n][k] \in Windows
                      /\ \A t \in DOMAIN registry[n] :
                           registry[n][t] \in Kinds /\ registry[n][t].type_id = t
                      /\ admitted[n] \subseteq Sent
  /\ now \in 1 .. MaxNow

SealedFor(n, e) == e.params.recipient_pub = public_key_bytes(CurrentKey(n))

\* A frame passes the cryptographic checks of open_message at a node exactly
\* when it is, unaltered in every field, an envelope that the holder of its
\* sender's key sealed and signed for that node's key: not one re-addressed,
\* spliced, forwarded, mislabelled or sealed in another's name.
AuthenticExactly ==
  \A n \in Nodes : \A env \in {f.envelope : f \in Presentable} \ {Malformed} :
    Authenticated(CurrentKey(n), env, Resolve(env.sender, env.sender_epoch)).ok
      <=> \E e \in log : /\ e.frame.envelope = env /\ SealedFor(n, e)
                         /\ e.made \in {"sealed", "lied"}

\* No message is handled twice, although its guard entry is made before its
\* type may be known, its handler is registered or its payload is decompressed.
HandledOnce ==
  \A n \in Nodes : \A x, y \in BagToSet(handled[n]) :
    /\ handled[n][x] = 1
    /\ x.envelope = y.envelope => x = y

InWindow(n, e) ==
  LET key == ReplayKey(e.params.sender, e.params.sender_epoch)
  IN  key \in DOMAIN guard[n]
        => e.params.counter + REPLAY_WINDOW > guard[n][key].highest

\* Nothing that was presented to a node before, altered, stale, expired, lied
\* about or from another sender, keeps it from opening a message sealed for
\* it: the first time it comes, fresh and in the window, it is opened and the
\* payload, shape and type are the sender's.
GoodMessageOpens ==
  \A n \in Nodes : \A e \in log :
    (/\ e.made = "sealed" /\ SealedFor(n, e)
     /\ e.frame.envelope \notin admitted[n]
     /\ Fresh(e.params.timestamp_ms, now) /\ InWindow(n, e)
     /\ ~TtlTooLong(e.params) /\ ~Expired(e.params, now)
     /\ PayloadLen[e.params.payload] <= MAX_DECOMPRESSED_BYTES)
    => \A r \in Opened(n, e.frame) :
         /\ r.result.ok
         /\ r.result.value.payload = Text(e.params.payload)
         /\ r.result.value.shape = e.params.shape
         /\ r.result.value.message_type = e.params.message_type

\* A message is dropped without an error to answer with only if its sender
\* sealed it as a one-shot or a response.
SilentOnlyIfOneWay ==
  \A n \in Nodes : \A e \in log : \A r \in Opened(n, e.frame) :
    (r.result.ok /\ Dispatched(n, r.result.value) = "Dropped")
      => e.params.shape \in {"OneShot", "Response"}

\* What is handed on was declared by its sender at its true length and is
\* within the cap, whatever an authenticated sender claims.
DeliveredWithinCap ==
  \A n \in Nodes : \A e \in log : \A r \in Opened(n, e.frame) :
    r.result.ok =>
      LET inner == e.frame.envelope.sealed.ciphertext.plaintext
          len == ByteLen(r.result.value.payload)
      IN  len = inner.uncompressed_len /\ len <= MAX_DECOMPRESSED_BYTES

\* One handler per type and node, for good: the messages of a type go to the
\* handler that was registered for it first.
OneHandlerPerType ==
  \A n \in Nodes : \A x \in BagToSet(handled[n]) :
    registry[n][x.message_type].handler = x.handler
=============================================================================
