---------------------------- MODULE MCMessaging ----------------------------
(***************************************************************************)
(* An instance of Messaging for TLC: an honest node A that also writes to  *)
(* itself, a dishonest node B, and a DID X with an unsound key.            *)
(***************************************************************************)
EXTENDS Messaging

CONSTANTS A, B, X,            \* DIDs
          t1, t2,             \* message types
          short, text, bulky, bomb, huge   \* payloads

TwoNodes == {A, B}
RotatingA == [n \in TwoNodes |-> IF n = A THEN 1 ELSE 0]

AllPayloads == {short, text, bulky, bomb, huge}
\* short is below MIN_COMPRESS_BYTES; zstd shrinks text and bomb and expands
\* bulky; bomb is over MAX_DECOMPRESSED_BYTES and huge over U32_MAX.
Lens == [p \in AllPayloads |->
  CASE p = short -> 1 [] p = text -> 4 [] p = bulky -> 5 [] p = bomb -> 6 [] p = huge -> 8]
FrameLens == [p \in AllPayloads |->
  CASE p = short -> 2 [] p = text -> 2 [] p = bulky -> 6 [] p = bomb -> 3 [] p = huge -> 3]

Msg(type, shape, stream, payload, ttl) ==
  [message_type |-> type, shape |-> shape, stream |-> stream,
   payload |-> payload, ttl |-> ttl]
DataHeader == [frame |-> DATA, seq |-> 0, window |-> 1]

Request == Msg(t1, "Request", NoStream, text, 0)
OneWay  == Msg(t2, "OneShot", NoStream, short, 1)

\* A message to oneself, to the other, back, and five that cannot arrive: with
\* too long a lifetime, over the decompression cap, over the envelope cap with
\* its stream header, over the length field, and to an unsound key.
SomeSends ==
  {<<<<A, A>>, Request>>, <<<<A, B>>, Request>>, <<<<B, A>>, OneWay>>,
   <<<<B, A>>, Request>>,
   <<<<B, A>>, Msg(t1, "Request", NoStream, text, 3)>>,
   <<<<A, B>>, Msg(t1, "StreamFrame", DataHeader, bomb, 0)>>,
   <<<<A, B>>, Msg(t2, "Request", DataHeader, bulky, 0)>>,
   <<<<A, B>>, Msg(t2, "Response", NoStream, huge, 3)>>,
   <<<<A, X>>, OneWay>>}

\* A raw payload over the cap, an output longer and one shorter than declared,
\* an unknown codec, and bytes no handler can decode.
SomeLies ==
  {Compressed(COMPRESSION_NONE, Text(bomb), 4), Compressed(COMPRESSION_ZSTD, Frame(bomb), 4),
   Compressed(COMPRESSION_ZSTD, Frame(short), 4), Compressed(2, Text(text), 4),
   Compressed(COMPRESSION_NONE, Frame(text), 2)}

OneCrafted == {Request}

\* Two kinds claim t1, and nobody knows t2.
SomeKinds == {[type_id |-> t1, handler |-> h, decodes |-> {Text(text)}] : h \in {1, 2}}
=============================================================================
