---------------------------- MODULE Compression ----------------------------
(***************************************************************************)
(* src/src/compression.rs.  A byte string is either the text of an         *)
(* application payload or the zstd frame of one; what the code looks at is *)
(* its length.  zstd itself is external: all that is known of it is the    *)
(* length of the frame it makes of each payload, which may be larger than  *)
(* the payload, and that it decodes its own frames and nothing else.       *)
(***************************************************************************)
EXTENDS Machine

CONSTANTS Payloads,                \* what the applications send
          PayloadLen,              \* the length of each of them
          ZstdLen,                 \* the length of its zstd frame
          MIN_COMPRESS_BYTES,      \* shorter payloads are sent raw
          MAX_DECOMPRESSED_BYTES   \* cap on the declared and the decoded length

ASSUME CompressionAssumption ==
  /\ PayloadLen \in [Payloads -> Nat] /\ ZstdLen \in [Payloads -> Nat]
  /\ MIN_COMPRESS_BYTES \in Nat
  /\ MAX_DECOMPRESSED_BYTES \in U32

COMPRESSION_NONE == 0
COMPRESSION_ZSTD == 1

Text(p)  == [payload |-> p, zstd |-> FALSE]
Frame(p) == [payload |-> p, zstd |-> TRUE]
Bytes == [payload : Payloads, zstd : BOOLEAN]

ByteLen(bytes) ==
  IF bytes.zstd THEN ZstdLen[bytes.payload] ELSE PayloadLen[bytes.payload]

\* Ok(value) and Err(error) of a Result.
Ok(value)  == [ok |-> TRUE, value |-> value]
Err(error) == [ok |-> FALSE, error |-> error]

Compressed(compression, bytes, uncompressed_len) ==
  [compression |-> compression, bytes |-> bytes, uncompressed_len |-> uncompressed_len]

\* zstd only from MIN_COMPRESS_BYTES on, and only if it shrinks the payload.
compress_payload(p) ==
  IF PayloadLen[p] > U32_MAX THEN Err("PayloadTooLarge")
  ELSE IF PayloadLen[p] < MIN_COMPRESS_BYTES \/ ZstdLen[p] >= PayloadLen[p]
    THEN Ok(Compressed(COMPRESSION_NONE, Text(p), PayloadLen[p]))
    ELSE Ok(Compressed(COMPRESSION_ZSTD, Frame(p), PayloadLen[p]))

\* zstd::bulk::decompress with an output buffer of `capacity` bytes.
zstd_decompress(data, capacity) ==
  IF data.zstd /\ PayloadLen[data.payload] <= capacity
    THEN Ok(Text(data.payload))
    ELSE Err("Codec")

\* Faulty: the buffer grows with the output and the length is not compared.
decompress_payload_unbounded(compression, data, uncompressed_len) ==
  IF uncompressed_len > MAX_DECOMPRESSED_BYTES THEN Err("DecompressionBomb")
  ELSE IF compression = COMPRESSION_NONE THEN Ok(data)
  ELSE IF compression = COMPRESSION_ZSTD THEN zstd_decompress(data, U64_MAX)
  ELSE Err("UnsupportedCompression")

LengthChecked(decoded, declared) ==
  IF decoded.ok /\ ByteLen(decoded.value) # declared
    THEN Err("DecompressedLengthMismatch")
    ELSE decoded

decompress_payload(compression, data, uncompressed_len) ==
  IF uncompressed_len > MAX_DECOMPRESSED_BYTES THEN Err("DecompressionBomb")
  ELSE IF compression = COMPRESSION_NONE
    THEN LengthChecked(Ok(data), uncompressed_len)
  ELSE IF compression = COMPRESSION_ZSTD
    THEN LengthChecked(zstd_decompress(data, uncompressed_len), uncompressed_len)
  ELSE Err("UnsupportedCompression")
=============================================================================
