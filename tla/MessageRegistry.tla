-------------------------- MODULE MessageRegistry --------------------------
(***************************************************************************)
(* src/src/registry.rs, struct MessageRegistry: the table from message     *)
(* types to handlers, as operators on the table.  A handler first decodes  *)
(* the payload into its kind's type, which fails on the payloads of other  *)
(* kinds; what it does then, and whether it reports an error of its own,   *)
(* is the application's affair.                                            *)
(***************************************************************************)
EXTENDS Frames, HashMap

\* Faulty: the last registration wins.
register_overwrite(registry, kind) == Insert(registry, kind.type_id, kind)

\* An id that is taken is refused (DuplicateType) and its handler stays.
register(registry, kind) ==
  IF kind.type_id \in DOMAIN registry THEN registry
  ELSE Insert(registry, kind.type_id, kind)

\* Faulty: an unknown type is dropped silently, whatever the shape.
UnknownType_silent(shape) == "Dropped"

\* What becomes of a message whose type nobody registered.
UnknownType(shape) ==
  IF shape \in {"Request", "StreamFrame"} THEN "UnsupportedType" ELSE "Dropped"

\* What becomes of a message: "Handled" if the handler decoded it and ran.
dispatch(registry, message_type, shape, payload) ==
  IF message_type \notin DOMAIN registry THEN UnknownType(shape)
  ELSE IF payload \in registry[message_type].decodes THEN "Handled"
  ELSE "Codec"
=============================================================================
